---- MODULE Spec2Model ----
(***************************************************************************)
(* Security & Audit Core of the CRUD API backend:                          *)
(*   RateLimitMiddleware          (app/middleware/security.py)             *)
(*   DataAccessControlMiddleware  (app/middleware/data_access_control.py)  *)
(*   AuditLogger                  (app/utils/audit_logging.py)             *)
(*   SecurityIncidentManager      (app/services/security_incident.py)      *)
(*   DataRetentionManager, UserDataDeletionRequest                         *)
(*                                (app/utils/data_retention.py)            *)
(***************************************************************************)
EXTENDS Integers, Sequences, FiniteSets, TLC

\* ------------------------------------------------------------------------
\* Bounds of the model
\* ------------------------------------------------------------------------
\* burst_limit / requests_per_minute / requests_per_hour are constructor
\* arguments of RateLimitMiddleware; the model runs a small configuration.
BurstLimit == 2
MinuteLimit == 2
HourLimit == 2
\* number of _record_request calls followed per client
MaxHist == 3
\* rows followed in security_incidents and in audit_logs
MaxIncidents == 1
MaxAudit == 2
\* rows followed in data_deletion_requests
MaxRequests == 1

\* ------------------------------------------------------------------------
\* Program constants
\* ------------------------------------------------------------------------
BurstSeconds == 10
MinuteSeconds == 60
HourSeconds == 3600
GdprAffectedUsersThreshold == 100
\* timedelta(hours=72) of the alert _schedule_gdpr_notification sends
GdprDeadlineHours == 72
UserProfileRetentionDays == 2555

Clients == {"10.0.0.1", "10.0.0.2"}
\* clock readings (seconds) at which requests arrive; they sit on and
\* around the three horizons
Instants == {0, 5, 10, 60, 3600}

\* NULL / None is the empty sequence, a present value v is <<v>>
Null == <<>>
Some(v) == <<v>>

VARIABLES
    now,              \* the wall clock read by datetime.now() / datetime.utcnow()
    request_history,  \* RateLimitMiddleware.request_history
    burst_history,    \* RateLimitMiddleware.burst_history
    recorded,         \* every timestamp _record_request was called with, per client
    in_flight,        \* per handler task: the request that is awaiting call_next
    audit_logs,       \* table audit_logs, in insertion order
    incidents,        \* table security_incidents, row id = index
    users,            \* table users, by id
    user_profiles,    \* table user_profiles, by user_id
    deletion_requests,\* table data_deletion_requests, row id = index
    pc,               \* position of each process_deletion_request invocation
    local,            \* its local variables
    ret               \* the last operation, its arguments and what it returned

rate_vars == <<request_history, burst_history, recorded, in_flight>>
inc_vars == <<incidents>>
data_vars == <<users, user_profiles>>
del_vars == <<deletion_requests, pc, local>>
vars == <<now, request_history, burst_history, recorded, in_flight, audit_logs, incidents,
          users, user_profiles, deletion_requests, pc, local, ret>>

\* ------------------------------------------------------------------------
\* RateLimitMiddleware
\* ------------------------------------------------------------------------
\* [req_time for req_time in history if req_time > window]
Newer(history, window) == SelectSeq(history, LAMBDA req_time : req_time > window)

\* the request history pruned at the minute horizon instead of the hour horizon
CleanupRequestHistoryShort(history, current_time) ==
    Newer(history, current_time - MinuteSeconds)

CleanupRequestHistory(history, current_time) ==
    Newer(history, current_time - HourSeconds)

\* a cleanup that leaves the burst history as it is
CleanupBurstHistoryKept(history, current_time) == history

CleanupBurstHistory(history, current_time) ==
    Newer(history, current_time - BurstSeconds)

\* the three checks with "more than the limit" in place of "at least the limit"
LimitedByAbove(rh, bh, current_time) ==
    IF Len(Newer(bh, current_time - BurstSeconds)) > BurstLimit THEN "burst"
    ELSE IF Len(Newer(rh, current_time - MinuteSeconds)) > MinuteLimit THEN "minute"
    ELSE IF Len(Newer(rh, current_time - HourSeconds)) > HourLimit THEN "hour"
    ELSE "none"

\* the three checks of _is_rate_limited, on the histories left by the cleanup
\* it starts with; the value is the window whose check returned True
LimitedBy(rh, bh, current_time) ==
    IF Len(Newer(bh, current_time - BurstSeconds)) >= BurstLimit THEN "burst"
    ELSE IF Len(Newer(rh, current_time - MinuteSeconds)) >= MinuteLimit THEN "minute"
    ELSE IF Len(Newer(rh, current_time - HourSeconds)) >= HourLimit THEN "hour"
    ELSE "none"

IsRateLimitedValueWholeHistory(rh, bh, current_time) ==
    Len(bh) >= BurstLimit \/ Len(rh) >= MinuteLimit \/ Len(rh) >= HourLimit

IsRateLimitedValue(rh, bh, current_time) ==
    LimitedBy(CleanupRequestHistory(rh, current_time),
              CleanupBurstHistory(bh, current_time), current_time) # "none"

\* _cleanup_old_requests(client_ip, current_time)
CleanupOldRequests(c) ==
    /\ request_history' = [request_history EXCEPT
                              ![c] = CleanupRequestHistory(@, now)]
    /\ burst_history' = [burst_history EXCEPT
                              ![c] = CleanupBurstHistory(@, now)]
    /\ ret' = [op |-> "cleanup", client |-> c, value |-> FALSE]
    /\ UNCHANGED <<now, recorded, in_flight, audit_logs, inc_vars, data_vars, del_vars>>

\* a check that counts the request it is asked about in the burst history
IsRateLimitedCounting(c) ==
    /\ request_history' = [request_history EXCEPT
                              ![c] = CleanupRequestHistory(@, now)]
    /\ burst_history' = [burst_history EXCEPT
                              ![c] = Append(CleanupBurstHistory(@, now), now)]
    /\ ret' = [op |-> "check", client |-> c,
               value |-> IsRateLimitedValue(request_history[c], burst_history[c], now)]
    /\ UNCHANGED <<now, recorded, in_flight, audit_logs, inc_vars, data_vars, del_vars>>

\* _is_rate_limited(client_ip, current_time)
IsRateLimited(c) ==
    /\ request_history' = [request_history EXCEPT
                              ![c] = CleanupRequestHistory(@, now)]
    /\ burst_history' = [burst_history EXCEPT
                              ![c] = CleanupBurstHistory(@, now)]
    /\ ret' = [op |-> "check", client |-> c,
               value |-> IsRateLimitedValue(request_history[c], burst_history[c], now)]
    /\ UNCHANGED <<now, recorded, in_flight, audit_logs, inc_vars, data_vars, del_vars>>

\* _record_request(client_ip, current_time)
RecordRequest(c) ==
    /\ Len(recorded[c]) < MaxHist
    /\ request_history' = [request_history EXCEPT
                              ![c] = CleanupRequestHistory(Append(@, now), now)]
    /\ burst_history' = [burst_history EXCEPT
                              ![c] = CleanupBurstHistory(Append(@, now), now)]
    /\ recorded' = [recorded EXCEPT ![c] = Append(@, now)]
    /\ ret' = [op |-> "record", client |-> c, value |-> FALSE]
    /\ UNCHANGED <<now, in_flight, audit_logs, inc_vars, data_vars, del_vars>>

\* Response(content='{"error": "Rate limit exceeded"}', status_code=429, ...)
RateLimitResponse == [status_code |-> 429, error |-> "Rate limit exceeded"]

\* the response of call_next(request), of which dispatch reads nothing
CallNextResponse == [status_code |-> 200, error |-> ""]

\* the steps of dispatch that can raise; dispatch has no try statement
DispatchFailures == {"none", "check", "record"}

\* RateLimitMiddleware.dispatch when _is_rate_limited (raises = "check") or
\* _record_request (raises = "record") raises: the exception leaves dispatch,
\* which returns no response and does not reach call_next. A failing check
\* leaves the histories as they are or pruned, a failing record leaves them
\* as the check pruned them.
DispatchRaising(c, raises, pruned) ==
    /\ raises = "record" =>
          (pruned /\ ~IsRateLimitedValue(request_history[c], burst_history[c], now))
    /\ request_history' = [request_history EXCEPT ![c] =
          IF pruned THEN CleanupRequestHistory(@, now) ELSE @]
    /\ burst_history' = [burst_history EXCEPT ![c] =
          IF pruned THEN CleanupBurstHistory(@, now) ELSE @]
    /\ ret' = [op |-> "dispatch_raised", client |-> c, value |-> FALSE,
               raises |-> raises, passed |-> FALSE, logged |-> FALSE]
    /\ UNCHANGED <<now, recorded, in_flight, audit_logs, inc_vars, data_vars, del_vars>>

DispatchRecordingDenied(c) ==
    LET limited == IsRateLimitedValue(request_history[c], burst_history[c], now)
        rh == CleanupRequestHistory(request_history[c], now)
        bh == CleanupBurstHistory(burst_history[c], now)
    IN  /\ Len(recorded[c]) < MaxHist
        /\ request_history' = [request_history EXCEPT ![c] =
              CleanupRequestHistory(Append(rh, now), now)]
        /\ burst_history' = [burst_history EXCEPT ![c] =
              CleanupBurstHistory(Append(bh, now), now)]
        /\ recorded' = [recorded EXCEPT ![c] = Append(@, now)]
        /\ ret' = [op |-> "dispatch", client |-> c, value |-> limited,
                   response |-> IF limited THEN RateLimitResponse
                                ELSE CallNextResponse]
        /\ UNCHANGED <<now, in_flight, audit_logs, inc_vars, data_vars, del_vars>>

\* RateLimitMiddleware.dispatch
Dispatch(c) ==
    LET limited == IsRateLimitedValue(request_history[c], burst_history[c], now)
        rh == CleanupRequestHistory(request_history[c], now)
        bh == CleanupBurstHistory(burst_history[c], now)
    IN  /\ limited \/ Len(recorded[c]) < MaxHist
        /\ request_history' = [request_history EXCEPT ![c] =
              IF limited THEN rh ELSE CleanupRequestHistory(Append(rh, now), now)]
        /\ burst_history' = [burst_history EXCEPT ![c] =
              IF limited THEN bh ELSE CleanupBurstHistory(Append(bh, now), now)]
        /\ recorded' = [recorded EXCEPT ![c] =
              IF limited THEN @ ELSE Append(@, now)]
        /\ ret' = [op |-> "dispatch", client |-> c, value |-> limited,
                   response |-> IF limited THEN RateLimitResponse
                                ELSE CallNextResponse]
        /\ UNCHANGED <<now, in_flight, audit_logs, inc_vars, data_vars, del_vars>>

\* ------------------------------------------------------------------------
\* SecurityLoggingMiddleware
\* ------------------------------------------------------------------------
\* A text is a sequence of fragments; "pattern in text" is true when one of
\* the fragments is the pattern.
\* str.lower() on the fragments the requests of the model are made of
Lower(fragment) ==
    CASE fragment = "UNION SELECT" -> "union select"
      [] fragment = "<SCRIPT" -> "<script"
      [] fragment = "SQLMap" -> "sqlmap"
      [] fragment = "API" -> "api"
      [] OTHER -> fragment

LowerText(text) == [i \in DOMAIN text |-> Lower(text[i])]

SqlInjectionPatterns ==
    <<"union select", "drop table", "insert into", "delete from",
      "update set", "exec(", "execute(", "sp_", "xp_">>
XssPatterns == <<"<script", "javascript:", "onerror=", "onload=", "eval(">>
PathTraversalPatterns == <<"../", "..\\", "%2e%2e", "%252e%252e">>
SuspiciousUserAgents == <<"sqlmap", "nikto", "nmap", "masscan", "zap", "burp">>

\* for pattern in patterns: if pattern in text: warn; break
\* the finding logged for one pattern list: the first pattern of the list
\* that occurs in the text, none when no pattern occurs
FirstPattern(kind, patterns, text) ==
    LET hits == {i \in DOMAIN patterns : \E j \in DOMAIN text : text[j] = patterns[i]}
    IN  IF hits = {} THEN <<>>
        ELSE <<[kind |-> kind,
                pattern |-> patterns[CHOOSE i \in hits : \A k \in hits : i <= k]]>>

\* _check_suspicious_patterns: the warnings it logs, in order
CheckSuspiciousPatterns(url_path, query, user_agent) ==
    LET suspicious_content == LowerText(url_path) \o <<" ">> \o LowerText(query)
    IN  FirstPattern("sql_injection", SqlInjectionPatterns, suspicious_content)
        \o FirstPattern("xss", XssPatterns, suspicious_content)
        \o FirstPattern("path_traversal", PathTraversalPatterns, suspicious_content)
        \o FirstPattern("user_agent", SuspiciousUserAgents, LowerText(user_agent))

\* a dispatch that answers 403 itself when the check has logged a finding
SecurityLoggingResponseBlocking(findings, downstream) ==
    IF findings # <<>> THEN Some(403) ELSE downstream

\* what SecurityLoggingMiddleware.dispatch returns: the response of
\* call_next (Null: its exception leaves dispatch); the findings are logged
\* and not read again
SecurityLoggingResponse(findings, downstream) == downstream

\* SecurityLoggingMiddleware.dispatch for one request; downstream is what
\* call_next does: Some(status code) or Null when it raises
SecurityLoggingDispatch(url_path, query, user_agent, downstream) ==
    \E findings \in {CheckSuspiciousPatterns(url_path, query, user_agent)} :
        /\ ret' = [op |-> "security_logging", url_path |-> url_path,
                   query |-> query, user_agent |-> user_agent,
                   downstream |-> downstream,
                   findings |-> findings,
                   call_next_called |-> TRUE,
                   response |-> SecurityLoggingResponse(findings, downstream)]
        /\ UNCHANGED <<now, rate_vars, audit_logs, inc_vars, data_vars, del_vars>>

\* ------------------------------------------------------------------------
\* The middleware stack of the application
\* ------------------------------------------------------------------------
\* setup_security_middleware(app, environment): the classes handed to
\* app.add_middleware, in the order of the calls
SetupSecurityMiddleware(environment) ==
    <<"SecurityLoggingMiddleware">>
    \o (IF environment \in {"production", "staging"}
        THEN <<"RateLimitMiddleware">> ELSE <<>>)
    \o <<"SecurityHeadersMiddleware">>

\* main.py: every middleware added to the application, in the order of the
\* calls (app.middleware("http") adds a BaseHTTPMiddleware)
RegisteredMiddleware(environment) ==
    (IF environment = "prod" THEN <<"TrustedHostMiddleware">> ELSE <<>>)
    \o SetupSecurityMiddleware(environment)
    \o <<"security_headers_middleware", "error_handling_middleware",
         "timing_middleware", "request_id_middleware", "CORSMiddleware">>

\* the order in which a request meets the middleware: add_middleware puts
\* each class in front of those added before, the last one added is outermost
ExecutionOrder(environment) ==
    LET registered == RegisteredMiddleware(environment)
    IN  [i \in 1..Len(registered) |-> registered[Len(registered) + 1 - i]]

\* position of the first occurrence of a middleware in a stack, 0 when absent
IndexOf(stack, name) ==
    IF \E i \in DOMAIN stack : stack[i] = name
    THEN CHOOSE i \in DOMAIN stack :
            stack[i] = name /\ \A j \in 1..(i - 1) : stack[j] # name
    ELSE 0

\* one request of client c through the application set up for environment.
\* Only RateLimitMiddleware.dispatch returns without call_next; every other
\* middleware of the stack awaits call_next, and the innermost call_next
\* reaches the route handler. stages is what ran, in order.
AppRequest(environment, c) ==
    LET stack == ExecutionOrder(environment)
        at == IndexOf(stack, "RateLimitMiddleware")
        limited == at > 0 /\ IsRateLimitedValue(request_history[c], burst_history[c], now)
        rh == CleanupRequestHistory(request_history[c], now)
        bh == CleanupBurstHistory(burst_history[c], now)
    IN  /\ (at > 0 /\ ~limited) => Len(recorded[c]) < MaxHist
        /\ request_history' = [request_history EXCEPT ![c] =
              IF at = 0 THEN @
              ELSE IF limited THEN rh ELSE CleanupRequestHistory(Append(rh, now), now)]
        /\ burst_history' = [burst_history EXCEPT ![c] =
              IF at = 0 THEN @
              ELSE IF limited THEN bh ELSE CleanupBurstHistory(Append(bh, now), now)]
        /\ recorded' = [recorded EXCEPT ![c] =
              IF at = 0 \/ limited THEN @ ELSE Append(@, now)]
        /\ ret' = [op |-> "app_request", client |-> c, environment |-> environment,
                   value |-> limited,
                   stages |-> IF limited THEN SubSeq(stack, 1, at)
                              ELSE Append(stack, "handler"),
                   response |-> IF limited THEN RateLimitResponse
                                ELSE CallNextResponse]
        /\ UNCHANGED <<now, in_flight, audit_logs, inc_vars, data_vars, del_vars>>

\* the clock moves on to a later reading out of the set instants
\* A header value is the sequence of its pieces: " ", "," and the words
\* between them; "203.0.113.1, 198.51.100.1" is
\* <<"203.0.113.1", ",", " ", "198.51.100.1">>, and "" is <<>>.
\* headers.get gives Null for a header that is absent.

\* str.split(",")[0]
RECURSIVE FirstOfSplit(_)
FirstOfSplit(value) ==
    IF value = <<>> \/ Head(value) = "," THEN <<>>
    ELSE <<Head(value)>> \o FirstOfSplit(Tail(value))

\* str.strip()
RECURSIVE LStripSpaces(_)
LStripSpaces(value) ==
    IF value # <<>> /\ Head(value) = " " THEN LStripSpaces(Tail(value)) ELSE value

RECURSIVE RStripSpaces(_)
RStripSpaces(value) ==
    IF value # <<>> /\ value[Len(value)] = " "
    THEN RStripSpaces(SubSeq(value, 1, Len(value) - 1)) ELSE value

StripSpaces(value) == RStripSpaces(LStripSpaces(value))

\* the truth value Python gives an Optional[str]: None and "" are false
TruthyHeader(header) == header # Null /\ header[1] # <<>>

GetClientIpValueRealIpFirst(forwarded_for, real_ip, client) ==
    IF TruthyHeader(real_ip) THEN real_ip[1]
    ELSE IF TruthyHeader(forwarded_for) THEN StripSpaces(FirstOfSplit(forwarded_for[1]))
    ELSE IF client # Null THEN <<client[1]>>
    ELSE <<"unknown">>

\* _get_client_ip: the value returned for the two headers and request.client
GetClientIpValue(forwarded_for, real_ip, client) ==
    IF TruthyHeader(forwarded_for) THEN StripSpaces(FirstOfSplit(forwarded_for[1]))
    ELSE IF TruthyHeader(real_ip) THEN real_ip[1]
    ELSE IF client # Null THEN <<client[1]>>
    ELSE <<"unknown">>

GetClientIp(forwarded_for, real_ip, client) ==
    /\ ret' = [op |-> "get_client_ip", forwarded_for |-> forwarded_for,
               real_ip |-> real_ip, client |-> client,
               value |-> GetClientIpValue(forwarded_for, real_ip, client)]
    /\ UNCHANGED <<now, rate_vars, audit_logs, inc_vars, data_vars, del_vars>>

\* Requests handled concurrently by one process are tasks of one event
\* loop, and a task gives up control at an await only. dispatch has one
\* await, the call of call_next: what precedes it (_get_client_ip,
\* datetime.now(), _is_rate_limited, _record_request, all plain functions)
\* runs without another task in between.
Tasks == {"t1", "t2"}

DispatchSegmentUnchecked(rh, bh, current_time) ==
    [limited |-> FALSE,
     request_history |-> CleanupRequestHistory(Append(rh, current_time), current_time),
     burst_history |-> CleanupBurstHistory(Append(bh, current_time), current_time)]

\* dispatch up to its await: the decision and the two histories it leaves
DispatchSegment(rh, bh, current_time) ==
    LET limited == IsRateLimitedValue(rh, bh, current_time)
        pruned_rh == CleanupRequestHistory(rh, current_time)
        pruned_bh == CleanupBurstHistory(bh, current_time)
    IN  [limited |-> limited,
         request_history |->
            IF limited THEN pruned_rh
            ELSE CleanupRequestHistory(Append(pruned_rh, current_time), current_time),
         burst_history |->
            IF limited THEN pruned_bh
            ELSE CleanupBurstHistory(Append(pruned_bh, current_time), current_time)]

\* a task starts dispatch for a request of client c and runs to the return
\* of the 429 response or to the await of call_next
DispatchBegin(t, c) ==
    /\ in_flight[t] = Null
    /\ \E seg \in {DispatchSegment(request_history[c], burst_history[c], now)} :
          /\ seg.limited \/ Len(recorded[c]) < MaxHist
          /\ request_history' = [request_history EXCEPT ![c] = seg.request_history]
          /\ burst_history' = [burst_history EXCEPT ![c] = seg.burst_history]
          /\ recorded' = [recorded EXCEPT ![c] =
                IF seg.limited THEN @ ELSE Append(@, now)]
          /\ in_flight' = [in_flight EXCEPT ![t] =
                IF seg.limited THEN Null
                ELSE Some([client |-> c, current_time |-> now])]
          /\ ret' = [op |-> "dispatch_begin", task |-> t, client |-> c,
                     value |-> seg.limited,
                     response |-> IF seg.limited THEN RateLimitResponse
                                  ELSE [status_code |-> 0, error |-> ""]]
    /\ UNCHANGED <<now, audit_logs, inc_vars, data_vars, del_vars>>

\* call_next returns to the task, which returns the response
DispatchEnd(t) ==
    /\ in_flight[t] # Null
    /\ in_flight' = [in_flight EXCEPT ![t] = Null]
    /\ ret' = [op |-> "dispatch_end", task |-> t, client |-> in_flight[t][1].client,
               value |-> FALSE, response |-> CallNextResponse]
    /\ UNCHANGED <<now, request_history, burst_history, recorded, audit_logs,
                   inc_vars, data_vars, del_vars>>

Tick(instants) ==
    /\ \E t \in instants : t > now /\ now' = t
    /\ ret' = [op |-> "tick", client |-> "", value |-> FALSE]
    /\ UNCHANGED <<rate_vars, audit_logs, inc_vars, data_vars, del_vars>>

\* ------------------------------------------------------------------------
\* AuditLogger
\* ------------------------------------------------------------------------
\* the row log_data_access inserts; of the details only the key the
\* properties read is kept (incident_id, status_code)
AuditEntry(user_id, action, data_category, target_user_id, details) ==
    [user_id |-> user_id, action |-> action, data_category |-> data_category,
     target_user_id |-> target_user_id, details |-> details, created_at |-> now]

\* an insert that replaces the stored rows by the new one
InsertAuditRowReplacing(log, entry) == <<entry>>

\* INSERT INTO audit_logs (...) VALUES (...)
InsertAuditRow(log, entry) == Append(log, entry)

\* AuditLogger.log_data_access: the table after the call; storage_ok is
\* whether db.execute returned (True is returned) or raised (the exception is
\* caught and False is returned)
LogDataAccess(log, entry, storage_ok) ==
    IF storage_ok THEN InsertAuditRow(log, entry) ELSE log

\* the append is followed while the table holds fewer than MaxAudit rows
CanAppend(storage_ok) == storage_ok => Len(audit_logs) < MaxAudit

\* what a call of log_data_access hands back when the except branch lets the
\* exception of the insert through
LogDataAccessReturnUncaught(storage_ok) ==
    [raised |-> ~storage_ok, value |-> storage_ok]

\* what a call of log_data_access hands back: the whole body sits in one
\* try, "return True" ends it and "except Exception" returns False
LogDataAccessReturn(storage_ok) ==
    [raised |-> FALSE, value |-> storage_ok]

\* one call of AuditLogger.log_data_access by any caller
RecordDataAccess(user_id, action, data_category, target_user_id, storage_ok) ==
    LET entry == AuditEntry(user_id, action, data_category, target_user_id,
                            [status_code |-> 200])
        returned == LogDataAccessReturn(storage_ok)
    IN  /\ CanAppend(storage_ok)
        /\ audit_logs' = LogDataAccess(audit_logs, entry, storage_ok)
        /\ ret' = [op |-> "log_data_access", entry |-> entry,
                   storage_ok |-> storage_ok,
                   raised |-> returned.raised, value |-> returned.value]
        /\ UNCHANGED <<now, rate_vars, inc_vars, data_vars, del_vars>>

\* ------------------------------------------------------------------------
\* SecurityIncidentManager
\* ------------------------------------------------------------------------
IncidentStatuses == <<"detected", "investigating", "contained", "resolved">>

\* position of a status in the IncidentStatus enumeration
Rank(status) == CHOOSE i \in DOMAIN IncidentStatuses : IncidentStatuses[i] = status

\* the breach test without the test of the incident type
RequiresGdprNotificationAnyType(incident_type, severity, affected_users_count) ==
    severity \in {"high", "critical"}
    \/ affected_users_count > GdprAffectedUsersThreshold

\* _requires_gdpr_notification
RequiresGdprNotification(incident_type, severity, affected_users_count) ==
    IF incident_type = "data_breach"
    THEN severity \in {"high", "critical"}
         \/ affected_users_count > GdprAffectedUsersThreshold
    ELSE FALSE

\* an initial notification that pages for CRITICAL only and sends the
\* business notification in every case
SendIncidentNotificationBoth(severity) ==
    (IF severity = "critical"
     THEN <<[function |-> "send_critical_alert",
             title |-> "security_incident", deadline |-> Null]>>
     ELSE <<>>)
    \o <<[function |-> "send_business_notification",
           title |-> "security_incident", deadline |-> Null]>>

\* _send_incident_notification: the one call it makes, send_critical_alert
\* for CRITICAL and HIGH, send_business_notification otherwise; both return
\* a flag and do not raise
SendIncidentNotification(severity) ==
    <<[function |-> IF severity \in {"critical", "high"}
                    THEN "send_critical_alert"
                    ELSE "send_business_notification",
       title |-> "security_incident", deadline |-> Null]>>

\* _schedule_gdpr_notification after its UPDATE: the alert with the deadline
\* utcnow() + 72 h; update_raises: the UPDATE raised and the except branch
\* of the function was taken before the alert
ScheduleGdprAlert(update_raises) ==
    IF update_raises THEN <<>>
    ELSE <<[function |-> "send_critical_alert",
            title |-> "gdpr_notification_required",
            deadline |-> Some(now + GdprDeadlineHours * 3600)]>>

\* what create_incident hands back: the new id, or the ValueError its except
\* branch raises when the INSERT fails; log_data_access returns a flag that
\* is not read and _schedule_gdpr_notification catches its own exceptions
CreateIncidentValue(incident_id, fails) ==
    IF "insert" \in fails THEN "ValueError" ELSE incident_id

CreateIncidentNotifyingFirst(incident_type, severity, affected_users_count, fails) ==
    IF "insert" \in fails
    THEN /\ ret' = [op |-> "create_incident", fails |-> fails,
                    value |-> CreateIncidentValue(Len(incidents) + 1, fails),
                    created |-> FALSE, gdpr_required |-> FALSE,
                    notifications |-> SendIncidentNotification(severity)]
         /\ UNCHANGED <<now, rate_vars, audit_logs, inc_vars, data_vars, del_vars>>
    ELSE LET incident_id == Len(incidents) + 1
             gdpr_required == RequiresGdprNotification(incident_type, severity,
                                                       affected_users_count)
             flagged == gdpr_required /\ "gdpr" \notin fails
             row == [incident_type |-> incident_type,
                     severity |-> severity,
                     affected_users_count |-> affected_users_count,
                     detection_date |-> now,
                     status |-> "detected",
                     response_actions |-> Null,
                     resolution_date |-> Null,
                     reported_to_authority |-> flagged,
                     authority_report_date |-> IF flagged THEN Some(now) ELSE Null]
         IN  /\ Len(incidents) < MaxIncidents
             /\ CanAppend("audit" \notin fails)
             /\ incidents' = Append(incidents, row)
             /\ audit_logs' = LogDataAccess(audit_logs,
                    AuditEntry(Null, "create", "system_data", Null,
                               [incident_id |-> incident_id]),
                    "audit" \notin fails)
             /\ ret' = [op |-> "create_incident", fails |-> fails,
                        value |-> CreateIncidentValue(incident_id, fails),
                        created |-> TRUE, gdpr_required |-> gdpr_required,
                        notifications |->
                            SendIncidentNotification(severity)
                            \o (IF gdpr_required
                                THEN ScheduleGdprAlert("gdpr" \in fails)
                                ELSE <<>>)]
             /\ UNCHANGED <<now, rate_vars, data_vars, del_vars>>

\* create_incident; fails is the set of storage calls that raise:
\* "insert" (INSERT INTO security_incidents), "audit" (the audit insert),
\* "gdpr" (the UPDATE of _schedule_gdpr_notification)
CreateIncident(incident_type, severity, affected_users_count, fails) ==
    IF "insert" \in fails
    THEN /\ ret' = [op |-> "create_incident", fails |-> fails,
                    value |-> CreateIncidentValue(Len(incidents) + 1, fails),
                    created |-> FALSE, gdpr_required |-> FALSE,
                    notifications |-> <<>>]
         /\ UNCHANGED <<now, rate_vars, audit_logs, inc_vars, data_vars, del_vars>>
    ELSE LET incident_id == Len(incidents) + 1
             gdpr_required == RequiresGdprNotification(incident_type, severity,
                                                       affected_users_count)
             flagged == gdpr_required /\ "gdpr" \notin fails
             row == [incident_type |-> incident_type,
                     severity |-> severity,
                     affected_users_count |-> affected_users_count,
                     detection_date |-> now,
                     status |-> "detected",
                     response_actions |-> Null,
                     resolution_date |-> Null,
                     reported_to_authority |-> flagged,
                     authority_report_date |-> IF flagged THEN Some(now) ELSE Null]
         IN  /\ Len(incidents) < MaxIncidents
             /\ CanAppend("audit" \notin fails)
             /\ incidents' = Append(incidents, row)
             /\ audit_logs' = LogDataAccess(audit_logs,
                    AuditEntry(Null, "create", "system_data", Null,
                               [incident_id |-> incident_id]),
                    "audit" \notin fails)
             /\ ret' = [op |-> "create_incident", fails |-> fails,
                        value |-> CreateIncidentValue(incident_id, fails),
                        created |-> TRUE, gdpr_required |-> gdpr_required,
                        notifications |->
                            SendIncidentNotification(severity)
                            \o (IF gdpr_required
                                THEN ScheduleGdprAlert("gdpr" \in fails)
                                ELSE <<>>)]
             /\ UNCHANGED <<now, rate_vars, data_vars, del_vars>>

\* the UPDATE of update_incident_status applied to the stored row
UpdatedIncident(row, new_status, response_actions) ==
    [row EXCEPT
        !.status = new_status,
        !.response_actions = IF Len(response_actions) > 0
                             THEN response_actions ELSE @,
        !.resolution_date = IF new_status = "resolved" THEN Some(now) ELSE @]

\* an update_incident_status whose failing audit append takes the call into
\* its except branch
UpdateIncidentStatusValueAuditRaises(found, fails) ==
    "select" \notin fails /\ found /\ "update" \notin fails /\ "audit" \notin fails

\* what update_incident_status hands back: False when the SELECT finds no
\* row or a statement of the try raises, True after the UPDATE; the flag
\* log_data_access returns is not read
UpdateIncidentStatusValue(found, fails) ==
    "select" \notin fails /\ found /\ "update" \notin fails

\* update_incident_status; fails is the set of storage calls that raise:
\* "select", "update", "audit"
UpdateIncidentStatus(incident_id, new_status, response_actions, resolver_user_id, fails) ==
    LET found == incident_id \in DOMAIN incidents
        updated == UpdateIncidentStatusValue(found, fails)
    IN  /\ updated => CanAppend("audit" \notin fails)
        /\ incidents' = IF updated
                        THEN [incidents EXCEPT ![incident_id] =
                                 UpdatedIncident(@, new_status, response_actions)]
                        ELSE incidents
        /\ audit_logs' = IF updated
                         THEN LogDataAccess(audit_logs,
                                 AuditEntry(resolver_user_id, "update", "system_data", Null,
                                            [incident_id |-> incident_id]),
                                 "audit" \notin fails)
                         ELSE audit_logs
        /\ ret' = [op |-> "update_incident_status", incident_id |-> incident_id,
                   new_status |-> new_status, fails |-> fails, value |-> updated]
        /\ UNCHANGED <<now, rate_vars, data_vars, del_vars>>

\* ------------------------------------------------------------------------
\* DataRetentionManager
\* ------------------------------------------------------------------------
UserIds == {1, 2}
Workers == {"w1", "w2"}

\* timedelta(days=DataRetentionPeriod.USER_PROFILE.value), in seconds
UserProfileRetentionSeconds == UserProfileRetentionDays * 24 * 60 * 60

\* user 1 is past its retention period at time 0, user 2 reaches the end of
\* its retention period at time 5
InitialUsers ==
    [u \in UserIds |->
        Some([id |-> u,
              email |-> <<"user", u, "@example.com">>,
              username |-> <<"user", u>>,
              cognito_user_id |-> <<"sub", u>>,
              created_at |-> IF u = 1 THEN 0 - UserProfileRetentionSeconds - 1
                            ELSE 5 - UserProfileRetentionSeconds,
              deleted_at |-> Null])]

InitialProfiles ==
    [u \in UserIds |->
        Some([id |-> 10 + u,
              user_id |-> u,
              first_name |-> <<"first", u>>,
              last_name |-> <<"last", u>>,
              bio |-> <<"bio", u>>,
              avatar_url |-> Some(<<"avatar", u>>),
              deleted_at |-> Null])]

\* UPDATE <table> SET ... WHERE id = u: the row, when there is one, replaced
\* by new_row
UpdateRow(table, u, new_row) ==
    IF table[u] = Null THEN table ELSE [table EXCEPT ![u] = Some(new_row)]

\* DELETE FROM <table> WHERE id = u
DeleteRow(table, u) == [table EXCEPT ![u] = Null]

\* The three data operations issue two statements inside one try block;
\* first_raise is the statement that raises (0: none). The result is the two
\* tables and the returned boolean.

\* _soft_delete_user
SoftDeleteUser(us, ps, u, first_raise) ==
    LET Tomb(row) == [row EXCEPT !.deleted_at = Some(now)]
    IN  [users |-> IF first_raise = 1 THEN us ELSE UpdateRow(us, u, Tomb(us[u][1])),
         user_profiles |-> IF first_raise \in {1, 2} THEN ps ELSE UpdateRow(ps, u, Tomb(ps[u][1])),
         value |-> first_raise = 0]

AnonymizeUserKeepingAvatar(us, ps, u, first_raise) ==
    LET AnonProfile(row) == [row EXCEPT
                             !.first_name = <<"anonymized">>,
                             !.last_name = <<"user">>,
                             !.bio = <<"anonymized notice">>]
    IN  [users |-> us,
         user_profiles |-> IF first_raise \in {1, 2} THEN ps
                           ELSE UpdateRow(ps, u, AnonProfile(ps[u][1])),
         value |-> first_raise = 0]

\* _anonymize_user
AnonymizeUser(us, ps, u, first_raise) ==
    LET AnonUser(row) == [row EXCEPT
                             !.email = <<"anonymized_", now, "@deleted.local">>,
                             !.username = <<"anonymized_user_", now>>,
                             !.cognito_user_id = <<"anonymized_", now>>]
        AnonProfile(row) == [row EXCEPT
                             !.first_name = <<"anonymized">>,
                             !.last_name = <<"user">>,
                             !.bio = <<"anonymized notice">>,
                             !.avatar_url = Null]
    IN  [users |-> IF first_raise = 1 THEN us ELSE UpdateRow(us, u, AnonUser(us[u][1])),
         user_profiles |-> IF first_raise \in {1, 2} THEN ps
                           ELSE UpdateRow(ps, u, AnonProfile(ps[u][1])),
         value |-> first_raise = 0]

HardDeleteUserProfileOnly(us, ps, u, first_raise) ==
    [user_profiles |-> IF first_raise = 1 THEN ps ELSE DeleteRow(ps, u),
     users |-> us,
     value |-> first_raise = 0]

\* _hard_delete_user: user_profiles first, then users
HardDeleteUser(us, ps, u, first_raise) ==
    [user_profiles |-> IF first_raise = 1 THEN ps ELSE DeleteRow(ps, u),
     users |-> IF first_raise \in {1, 2} THEN us ELSE DeleteRow(us, u),
     value |-> first_raise = 0]

AnonymizationLevels == {"soft_delete", "anonymize", "hard_delete"}

\* the dispatch of anonymize_user_data
AnonymizeDispatch(us, ps, u, level, first_raise) ==
    CASE level = "soft_delete" -> SoftDeleteUser(us, ps, u, first_raise)
      [] level = "anonymize" -> AnonymizeUser(us, ps, u, first_raise)
      [] level = "hard_delete" -> HardDeleteUser(us, ps, u, first_raise)

\* anonymize_user_data(user_id, anonymization_level)
AnonymizeUserData(u, level, first_raise) ==
    LET r == AnonymizeDispatch(users, user_profiles, u, level, first_raise)
    IN  /\ users' = r.users
        /\ user_profiles' = r.user_profiles
        /\ ret' = [op |-> "anonymize_user_data", user_id |-> u, level |-> level,
                   value |-> r.value]
        /\ UNCHANGED <<now, rate_vars, audit_logs, inc_vars, del_vars>>

\* is_data_expired with retention period USER_PROFILE
RetentionPeriods ==
    {"USER_PROFILE", "ACCESS_LOG", "AUDIT_LOG", "SESSION_DATA", "TEMPORARY_DATA"}

\* DataRetentionPeriod.<name>.value, in days
RetentionDays(retention_period) ==
    CASE retention_period = "USER_PROFILE" -> UserProfileRetentionDays
      [] retention_period = "ACCESS_LOG" -> 365
      [] retention_period = "AUDIT_LOG" -> 2555
      [] retention_period = "SESSION_DATA" -> 30
      [] retention_period = "TEMPORARY_DATA" -> 7

\* calculate_retention_expiry
CalculateRetentionExpiry(created_at, retention_period) ==
    created_at + RetentionDays(retention_period) * 24 * 60 * 60

IsDataExpired(created_at, retention_period) ==
    now > CalculateRetentionExpiry(created_at, retention_period)

\* a call of is_data_expired(created_at, retention_period)
IsDataExpiredCall(created_at, retention_period) ==
    /\ ret' = [op |-> "is_data_expired", created_at |-> created_at,
               retention_period |-> retention_period,
               value |-> IsDataExpired(created_at, retention_period)]
    /\ UNCHANGED <<now, rate_vars, audit_logs, inc_vars, data_vars, del_vars>>

FindExpiredUserDataInclusive(us) ==
    {u \in UserIds :
        /\ us[u] # Null
        /\ us[u][1].created_at <= now - UserProfileRetentionSeconds
        /\ us[u][1].deleted_at = Null}

\* the rows find_expired_user_data selects, as user ids
FindExpiredUserData(us) ==
    {u \in UserIds :
        /\ us[u] # Null
        /\ us[u][1].created_at < now - UserProfileRetentionSeconds
        /\ us[u][1].deleted_at = Null}

\* a call of find_expired_user_data; when the query raises, the empty list
\* is returned
FindExpired(find_raises) ==
    /\ ret' = [op |-> "find_expired_user_data", find_raises |-> find_raises,
               value |-> IF find_raises THEN {} ELSE FindExpiredUserData(users)]
    /\ UNCHANGED <<now, rate_vars, audit_logs, inc_vars, data_vars, del_vars>>

\* the loop of cleanup_expired_data over the user ids in todo, in id order
RECURSIVE CleanupLoop(_, _, _, _)
CleanupLoop(us, ps, todo, first_raise) ==
    IF todo = {} THEN [users |-> us, user_profiles |-> ps, anonymized |-> 0, failed |-> 0]
    ELSE LET u == CHOOSE x \in todo : \A y \in todo : x <= y
             r == AnonymizeDispatch(us, ps, u, "anonymize", first_raise[u])
             rest == CleanupLoop(r.users, r.user_profiles, todo \ {u}, first_raise)
         IN  [rest EXCEPT !.anonymized = @ + (IF r.value THEN 1 ELSE 0),
                          !.failed = @ + (IF r.value THEN 0 ELSE 1)]

\* cleanup_expired_data; find_raises: the query of find_expired_user_data
\* raises (an empty list is returned); first_raise: per user, the statement
\* of _anonymize_user that raises
CleanupExpiredData(find_raises, first_raise) ==
    LET expired == IF find_raises THEN {} ELSE FindExpiredUserData(users)
        r == CleanupLoop(users, user_profiles, expired, first_raise)
    IN  /\ users' = r.users
        /\ user_profiles' = r.user_profiles
        /\ ret' = [op |-> "cleanup_expired_data",
                   processed_users |-> Cardinality(expired),
                   anonymized_users |-> r.anonymized,
                   failed_users |-> r.failed]
        /\ UNCHANGED <<now, rate_vars, audit_logs, inc_vars, del_vars>>

\* ------------------------------------------------------------------------
\* UserDataDeletionRequest
\* ------------------------------------------------------------------------
NoLocal == [request_id |-> 0, user_id |-> 0, success |-> FALSE]

\* create_deletion_request(user_id)
CreateDeletionRequest(u, raises) ==
    /\ ~raises => Len(deletion_requests) < MaxRequests
    /\ deletion_requests' =
          IF raises THEN deletion_requests
          ELSE Append(deletion_requests,
                      [user_id |-> u, status |-> "pending", processed_at |-> Null])
    /\ ret' = [op |-> "create_deletion_request", user_id |-> u, value |-> ~raises]
    /\ UNCHANGED <<now, rate_vars, audit_logs, inc_vars, data_vars, pc, local>>

\* UPDATE data_deletion_requests SET status = ... WHERE id = request_id
SetRequestStatus(requests, request_id, status) ==
    IF request_id \in DOMAIN requests
    THEN [requests EXCEPT ![request_id].status = status]
    ELSE requests

\* process_deletion_request(request_id) runs from one storage call to the
\* next; each step below is one awaited db.execute, which returns or raises.

\* the SELECT ... WHERE id = %s AND status = 'pending' and the fetchone
PDR_Select(w, request_id, raises) ==
    /\ pc[w] = "idle"
    /\ LET found == /\ request_id \in DOMAIN deletion_requests
                    /\ deletion_requests[request_id].status = "pending"
       IN  IF raises
           THEN /\ pc' = [pc EXCEPT ![w] = "except"]
                /\ local' = [local EXCEPT ![w] = [NoLocal EXCEPT !.request_id = request_id]]
                /\ UNCHANGED ret
           ELSE IF found
           THEN /\ pc' = [pc EXCEPT ![w] = "mark_processing"]
                /\ local' = [local EXCEPT ![w] =
                                [request_id |-> request_id,
                                 user_id |-> deletion_requests[request_id].user_id,
                                 success |-> FALSE]]
                /\ UNCHANGED ret
           ELSE /\ ret' = [op |-> "process_deletion_request", worker |-> w,
                           request_id |-> request_id, value |-> "False",
                           deleted |-> FALSE]
                /\ UNCHANGED <<pc, local>>
    /\ UNCHANGED <<now, rate_vars, audit_logs, inc_vars, data_vars, deletion_requests>>

\* UPDATE ... SET status = 'processing'
PDR_MarkProcessing(w, raises) ==
    /\ pc[w] = "mark_processing"
    /\ pc' = [pc EXCEPT ![w] = IF raises THEN "except" ELSE "delete_profiles"]
    /\ deletion_requests' =
          IF raises THEN deletion_requests
          ELSE SetRequestStatus(deletion_requests, local[w].request_id, "processing")
    /\ UNCHANGED <<now, rate_vars, audit_logs, inc_vars, data_vars, local, ret>>

\* anonymize_user_data(user_id, HARD_DELETE): DELETE FROM user_profiles
PDR_DeleteProfiles(w, raises) ==
    /\ pc[w] = "delete_profiles"
    /\ pc' = [pc EXCEPT ![w] = IF raises THEN "mark_result" ELSE "delete_users"]
    /\ user_profiles' = HardDeleteUser(users, user_profiles, local[w].user_id,
                                       IF raises THEN 1 ELSE 2).user_profiles
    /\ UNCHANGED <<now, rate_vars, audit_logs, inc_vars, users, deletion_requests,
                   local, ret>>

\* anonymize_user_data(user_id, HARD_DELETE): DELETE FROM users
PDR_DeleteUsers(w, raises) ==
    /\ pc[w] = "delete_users"
    /\ pc' = [pc EXCEPT ![w] = "mark_result"]
    /\ users' = HardDeleteUser(users, user_profiles, local[w].user_id,
                               IF raises THEN 2 ELSE 0).users
    /\ local' = [local EXCEPT ![w].success = ~raises]
    /\ UNCHANGED <<now, rate_vars, audit_logs, inc_vars, user_profiles,
                   deletion_requests, ret>>

\* UPDATE ... SET status = %s, processed_at = %s, and return success
PDR_MarkResult(w, raises) ==
    /\ pc[w] = "mark_result"
    /\ IF raises
       THEN /\ pc' = [pc EXCEPT ![w] = "except"]
            /\ UNCHANGED <<deletion_requests, local, ret>>
       ELSE /\ pc' = [pc EXCEPT ![w] = "idle"]
            /\ deletion_requests' =
                  IF local[w].request_id \in DOMAIN deletion_requests
                  THEN [deletion_requests EXCEPT ![local[w].request_id] =
                           [@ EXCEPT !.status = IF local[w].success THEN "completed"
                                                ELSE "failed",
                                     !.processed_at = Some(now)]]
                  ELSE deletion_requests
            /\ local' = [local EXCEPT ![w] = NoLocal]
            /\ ret' = [op |-> "process_deletion_request", worker |-> w,
                       request_id |-> local[w].request_id,
                       value |-> IF local[w].success THEN "True" ELSE "False",
                       deleted |-> local[w].success]
    /\ UNCHANGED <<now, rate_vars, audit_logs, inc_vars, data_vars>>

\* the except block: UPDATE ... SET status = 'failed', and return False; when
\* this UPDATE raises too, the exception leaves process_deletion_request
PDR_Except(w, raises) ==
    /\ pc[w] = "except"
    /\ pc' = [pc EXCEPT ![w] = "idle"]
    /\ deletion_requests' =
          IF raises THEN deletion_requests
          ELSE SetRequestStatus(deletion_requests, local[w].request_id, "failed")
    /\ local' = [local EXCEPT ![w] = NoLocal]
    /\ ret' = [op |-> "process_deletion_request", worker |-> w,
               request_id |-> local[w].request_id,
               value |-> IF raises THEN "raised" ELSE "False",
               deleted |-> local[w].success]
    /\ UNCHANGED <<now, rate_vars, audit_logs, inc_vars, data_vars>>

\* the process that runs process_deletion_request stops between two awaited
\* calls after the UPDATE to 'processing' has been done: none of the rest of
\* the function, its except block included, runs in that process again
PDR_Crash(w) ==
    /\ pc[w] \in {"delete_profiles", "delete_users", "mark_result"}
    /\ pc' = [pc EXCEPT ![w] = "stopped"]
    /\ local' = [local EXCEPT ![w] = NoLocal]
    /\ UNCHANGED <<now, rate_vars, audit_logs, inc_vars, data_vars,
                   deletion_requests, ret>>

\* ------------------------------------------------------------------------
\* DataAccessControlMiddleware
\* ------------------------------------------------------------------------
\* A path is the sequence of its "/" separators and its segments:
\* "/api/v1/users/1" is <<"/", "api", "/", "v1", "/", "users", "/", "1">>.
RECURSIVE P(_)
P(segments) ==
    IF segments = <<>> THEN <<>> ELSE <<"/", Head(segments)>> \o P(Tail(segments))

\* str.strip('/')
RECURSIVE StripLeft(_)
StripLeft(path) ==
    IF path # <<>> /\ Head(path) = "/" THEN StripLeft(Tail(path)) ELSE path

RECURSIVE StripRight(_)
StripRight(path) ==
    IF path # <<>> /\ path[Len(path)] = "/"
    THEN StripRight(SubSeq(path, 1, Len(path) - 1)) ELSE path

Strip(path) == StripRight(StripLeft(path))

\* str.split('/'): the segments between separators, "" between two
\* adjacent separators and for the empty string
RECURSIVE SplitFrom(_, _)
SplitFrom(path, current) ==
    IF path = <<>> THEN <<current>>
    ELSE IF Head(path) = "/" THEN <<current>> \o SplitFrom(Tail(path), "")
    ELSE SplitFrom(Tail(path), Head(path))

Split(path) == SplitFrom(path, "")

Parts(path) == Split(Strip(path))

\* personal_data_endpoints, in the order of the dict
PersonalDataEndpoints ==
    << [endpoint |-> P(<<"api", "v1", "users">>),
        methods |-> {"GET", "PUT", "DELETE"}],
       [endpoint |-> P(<<"api", "v1", "users", "{user_id}">>),
        methods |-> {"GET", "PUT", "DELETE"}],
       [endpoint |-> P(<<"api", "v1", "consent">>),
        methods |-> {"GET", "POST"}],
       [endpoint |-> P(<<"api", "v1", "data", "export">>),
        methods |-> {"POST"}] >>

\* admin_only_endpoints
AdminOnlyEndpoints ==
    { P(<<"api", "v1", "admin", "users">>),
      P(<<"api", "v1", "admin", "audit-logs">>),
      P(<<"api", "v1", "admin", "data-retention">>) }

\* pattern_part.startswith('{') and pattern_part.endswith('}')
IsPlaceholder(pattern_part) == pattern_part = "{user_id}"

MatchPathPatternAnyLength(path, pattern) ==
    \E path_parts \in {Parts(path)}, pattern_parts \in {Parts(pattern)} :
        \A i \in DOMAIN path_parts \cap DOMAIN pattern_parts :
            IsPlaceholder(pattern_parts[i]) \/ path_parts[i] = pattern_parts[i]

\* _match_path_pattern
MatchPathPattern(path, pattern) ==
    \E path_parts \in {Parts(path)}, pattern_parts \in {Parts(pattern)} :
        /\ Len(path_parts) = Len(pattern_parts)
        /\ \A i \in DOMAIN path_parts :
              IsPlaceholder(pattern_parts[i]) \/ path_parts[i] = pattern_parts[i]

\* _is_personal_data_endpoint
IsPersonalDataEndpoint(path, method) ==
    LET First(S) == CHOOSE i \in S : \A j \in S : i <= j
    IN  \E exact \in {{i \in DOMAIN PersonalDataEndpoints :
                          PersonalDataEndpoints[i].endpoint = path}} :
            IF exact # {} THEN method \in PersonalDataEndpoints[First(exact)].methods
            ELSE \E matching \in {{i \in DOMAIN PersonalDataEndpoints :
                        MatchPathPattern(path, PersonalDataEndpoints[i].endpoint)}} :
                    /\ matching # {}
                    /\ method \in PersonalDataEndpoints[First(matching)].methods

\* str.startswith on paths whose segments are whole words
StartsWith(path, prefix) ==
    Len(path) >= Len(prefix) /\ SubSeq(path, 1, Len(prefix)) = prefix

\* _is_admin_endpoint
IsAdminEndpoint(path) == \E admin_path \in AdminOnlyEndpoints : StartsWith(path, admin_path)

\* int(parts[3]): the value, or Null for the ValueError
ParseInt(segment) ==
    CASE segment = "0" -> Some(0)
      [] segment = "1" -> Some(1)
      [] segment = "2" -> Some(2)
      [] segment = "01" -> Some(1)
      [] OTHER -> Null

\* _extract_user_id_from_path
ExtractUserIdFromPath(path) ==
    LET parts == Parts(path)
    IN  IF Len(parts) >= 4 /\ parts[3] = "users" THEN ParseInt(parts[4]) ELSE Null

\* "/users/" in path
ContainsUsersSegment(path) ==
    \E i \in 1..(Len(path) - 2) :
        path[i] = "/" /\ path[i + 1] = "users" /\ path[i + 2] = "/"

\* the truth value Python gives an Optional[int]: None and 0 are false
Truthy(optional_int) == optional_int # Null /\ optional_int[1] # 0

\* The Authorization header of a request: absent, the empty string, a value
\* that does not start with "Bearer ", or "Bearer " followed by a token.
\* not authorization
NotAuthorization(authorization) == authorization.kind \in {"absent", "empty"}

\* _get_user_from_token: the token is not decoded, every bearer token yields
\* the same user
GetUserFromToken(authorization) ==
    IF authorization.kind = "bearer"
    THEN Some([id |-> 1, is_admin |-> FALSE])
    ELSE Null

AuthenticationRequired == "authentication required"
InvalidToken == "invalid authentication token"
AdminRequired == "admin privileges required"
OtherUsersData == "cannot access another user's data"
CheckFailed == "access permission check failed"

\* an except branch that lets the request through
CheckFailedResultAllowing == [allowed |-> TRUE, reason |-> ""]

\* the except branch of _check_access_permissions
CheckFailedResult == [allowed |-> FALSE, reason |-> CheckFailed]

\* the steps of _check_access_permissions that can raise: the token lookup,
\* whose own except branch returns None, and the evaluation that follows it
CheckFailures == {"none", "token", "evaluation"}

\* _check_access_permissions from the token lookup on (the header is present)
CheckTokenPermissions(authorization, path, method, is_admin_endpoint, raises) ==
    LET user_info == IF raises = "token" THEN Null
                     ELSE GetUserFromToken(authorization)
        path_user_id == ExtractUserIdFromPath(path)
    IN  IF user_info = Null
        THEN [allowed |-> FALSE, reason |-> InvalidToken]
        ELSE IF raises = "evaluation"
        THEN CheckFailedResult
        ELSE IF is_admin_endpoint /\ ~user_info[1].is_admin
        THEN [allowed |-> FALSE, reason |-> AdminRequired]
        ELSE IF /\ ContainsUsersSegment(path)
                /\ method \in {"GET", "PUT", "DELETE"}
                /\ Truthy(path_user_id)
                /\ path_user_id[1] # user_info[1].id
                /\ ~user_info[1].is_admin
        THEN [allowed |-> FALSE, reason |-> OtherUsersData]
        ELSE [allowed |-> TRUE, reason |-> ""]

\* _check_access_permissions without its first test of the header
CheckAccessPermissionsNoHeaderTest(authorization, path, method, is_admin_endpoint, raises) ==
    CheckTokenPermissions(authorization, path, method, is_admin_endpoint, raises)

\* _check_access_permissions
CheckAccessPermissions(authorization, path, method, is_admin_endpoint, raises) ==
    IF NotAuthorization(authorization)
    THEN [allowed |-> FALSE, reason |-> AuthenticationRequired]
    ELSE CheckTokenPermissions(authorization, path, method, is_admin_endpoint, raises)

DetermineActionAbove400(method, status_code) ==
    IF status_code > 400 THEN "access_denied"
    ELSE CASE method = "GET" -> "read"
           [] method = "POST" -> "create"
           [] method \in {"PUT", "PATCH"} -> "update"
           [] method = "DELETE" -> "delete"
           [] OTHER -> "read"

\* _determine_action
DetermineAction(method, status_code) ==
    IF status_code >= 400 THEN "access_denied"
    ELSE CASE method = "GET" -> "read"
           [] method = "POST" -> "create"
           [] method \in {"PUT", "PATCH"} -> "update"
           [] method = "DELETE" -> "delete"
           [] OTHER -> "read"

\* the row _log_data_access hands to AuditLogger.log_data_access
DataAccessEntry(authorization, path, method, status_code) ==
    LET user_info == IF NotAuthorization(authorization) THEN Null
                     ELSE GetUserFromToken(authorization)
        user_id == IF user_info = Null THEN Null ELSE Some(user_info[1].id)
        path_user_id == ExtractUserIdFromPath(path)
    IN  AuditEntry(user_id, DetermineAction(method, status_code), "personal_info",
                   IF Truthy(path_user_id) THEN path_user_id ELSE user_id,
                   [status_code |-> status_code])

\* what __call__ hands back to the client: the 403 of a denial, else the
\* response of call_next (Null: its exception is re-raised); logged is the
\* outcome of the audit append of _log_data_access, whose except branch
\* catches every exception
RequestResponse(allowed, handler, logged) ==
    IF ~allowed THEN Some(403)
    ELSE IF handler = 0 THEN Null ELSE Some(handler)

\* DataAccessControlMiddleware.__call__ for one request. handler is what
\* call_next does: the status code of its response, or 0 when it raises.
\* log_ok: _log_data_access obtains its connection and the insert succeeds;
\* otherwise the exception is caught inside _log_data_access.
\* check_raises: the step of _check_access_permissions that raises.
\* An input that is not read (the handler of a denied request, the audit
\* storage of a request that is not logged, a raising step that is not
\* reached) is held at one value.
HandleRequest(path, method, authorization, handler, log_ok, check_raises) ==
    \E is_personal_data_access \in {IsPersonalDataEndpoint(path, method)},
       is_admin_endpoint \in {IsAdminEndpoint(path)} :
    \E access \in {IF is_personal_data_access \/ is_admin_endpoint
                    THEN CheckAccessPermissions(authorization, path, method,
                                                is_admin_endpoint, check_raises)
                    ELSE [allowed |-> TRUE, reason |-> ""]} :
    LET logged == access.allowed /\ is_personal_data_access
        status_code == IF handler = 0 THEN 500 ELSE handler
    IN  /\ logged => CanAppend(log_ok)
        /\ ~logged => log_ok
        /\ (~(is_personal_data_access \/ is_admin_endpoint)
                \/ NotAuthorization(authorization)) => check_raises = "none"
        /\ ~access.allowed => handler = 200
        /\ audit_logs' =
              IF logged
              THEN LogDataAccess(audit_logs,
                       DataAccessEntry(authorization, path, method, status_code), log_ok)
              ELSE audit_logs
        /\ ret' = [op |-> "request", path |-> path, method |-> method,
                   authorization |-> authorization,
                   personal |-> is_personal_data_access,
                   admin_endpoint |-> is_admin_endpoint,
                   handler_called |-> access.allowed,
                   handler |-> handler, log_ok |-> log_ok,
                   check_raises |-> check_raises,
                   response |-> RequestResponse(access.allowed, handler, log_ok),
                   reason |-> access.reason]
        /\ UNCHANGED <<now, rate_vars, inc_vars, data_vars, del_vars>>

\* a call of _determine_action(method, status_code)
DetermineActionCall(method, status_code) ==
    /\ ret' = [op |-> "determine_action", method |-> method,
               status_code |-> status_code,
               value |-> DetermineAction(method, status_code)]
    /\ UNCHANGED <<now, rate_vars, audit_logs, inc_vars, data_vars, del_vars>>

\* ------------------------------------------------------------------------
\* app.auth.decorators
\* ------------------------------------------------------------------------
\* check_resource_permission(user_info, resource_owner_id, required_scope,
\* allow_self); user_info carries cognito_user_id and the scope list
CheckResourcePermissionValue(user_info, resource_owner_id, required_scope, allow_self) ==
    IF required_scope \in user_info.scope THEN TRUE
    ELSE IF allow_self /\ user_info.cognito_user_id = resource_owner_id THEN TRUE
    ELSE FALSE

CheckResourcePermission(user_info, resource_owner_id, required_scope, allow_self) ==
    /\ ret' = [op |-> "check_resource_permission", user_info |-> user_info,
               resource_owner_id |-> resource_owner_id,
               required_scope |-> required_scope, allow_self |-> allow_self,
               value |-> CheckResourcePermissionValue(user_info, resource_owner_id,
                                                      required_scope, allow_self)]
    /\ UNCHANGED <<now, rate_vars, audit_logs, inc_vars, data_vars, del_vars>>

\* ------------------------------------------------------------------------
\* Initial state and specifications
\* ------------------------------------------------------------------------
Init ==
    /\ now = 0
    /\ request_history = [c \in Clients |-> <<>>]
    /\ burst_history = [c \in Clients |-> <<>>]
    /\ recorded = [c \in Clients |-> <<>>]
    /\ in_flight = [t \in Tasks |-> Null]
    /\ audit_logs = <<>>
    /\ incidents = <<>>
    /\ users = InitialUsers
    /\ user_profiles = InitialProfiles
    /\ deletion_requests = <<>>
    /\ pc = [w \in Workers |-> "idle"]
    /\ local = [w \in Workers |-> NoLocal]
    /\ ret = [op |-> "init"]

\* the rate limiter
NextRate ==
    \/ \E c \in Clients : CleanupOldRequests(c)
    \/ \E c \in Clients : IsRateLimited(c)
    \/ \E c \in Clients : RecordRequest(c)
    \/ \E c \in Clients : Dispatch(c)
    \/ Tick(Instants)

SpecRate == Init /\ [][NextRate]_vars

\* the rate limiter under requests that are handled concurrently
NextConcurrent ==
    \/ \E t \in Tasks, c \in Clients : DispatchBegin(t, c)
    \/ \E t \in Tasks : DispatchEnd(t)
    \/ Tick(Instants)

SpecConcurrent == Init /\ [][NextConcurrent]_vars

\* client identity: the headers and the peer address of a request
ForwardedForValues ==
    { Null, Some(<<>>), Some(<<" ">>),
      Some(<<"203.0.113.1">>),
      Some(<<"203.0.113.1", ",", " ", "198.51.100.1">>),
      Some(<<"198.51.100.1", ",", "203.0.113.1">>),
      Some(<<" ", "203.0.113.1", " ", ",", "198.51.100.1">>),
      Some(<<"203.0.113.1", " ", "198.51.100.1">>),
      Some(<<",", "198.51.100.1">>),
      Some(<<" ", ",", " ">>) }
RealIpValues == {Null, Some(<<>>), Some(<<"203.0.113.2">>), Some(<<" ", "203.0.113.2">>)}
PeerAddresses == {Null, Some("10.0.0.1"), Some("10.0.0.2")}

NextClientIp ==
    \E forwarded_for \in ForwardedForValues, real_ip \in RealIpValues,
       client \in PeerAddresses :
       GetClientIp(forwarded_for, real_ip, client)

SpecClientIp == Init /\ [][NextClientIp]_vars

\* the rate limiter as a middleware whose check or record step may raise
NextRateFailing ==
    \/ \E c \in Clients : Dispatch(c)
    \/ \E c \in Clients, raises \in DispatchFailures \ {"none"}, pruned \in BOOLEAN :
          DispatchRaising(c, raises, pruned)
    \/ Tick(Instants)

SpecRateFailing == Init /\ [][NextRateFailing]_vars

\* the incident manager
IncidentTypes == {"data_breach", "other"}
Severities == {"medium", "critical"}
AffectedUsersCounts == {100, 101}
IncidentInstants == {0, 3600}
ResponseActions == {Null, Some("isolated")}
Resolvers == {Null, Some(1)}
\* at most one storage call raises per invocation
CreateFailures == {{}, {"insert"}, {"audit"}, {"gdpr"}}
UpdateFailures == {{}, {"select"}, {"update"}, {"audit"}}

NextIncident ==
    \/ \E t \in IncidentTypes, s \in Severities, n \in AffectedUsersCounts,
          fails \in CreateFailures :
          CreateIncident(t, s, n, fails)
    \/ \E i \in 1..MaxIncidents, st \in {IncidentStatuses[k] : k \in DOMAIN IncidentStatuses},
          ra \in ResponseActions, r \in Resolvers,
          fails \in UpdateFailures :
          UpdateIncidentStatus(i, st, ra, r, fails)
    \/ Tick(IncidentInstants)

SpecIncident == Init /\ [][NextIncident]_vars

\* the data lifecycle; 5 is the instant user 2's retention period ends
LifecycleInstants == {0, 5, 6}
\* deletion requests, processed by concurrent invocations
NextDeletion ==
    \/ \E u \in UserIds, raises \in BOOLEAN : CreateDeletionRequest(u, raises)
    \/ \E w \in Workers, r \in 1..MaxRequests, raises \in BOOLEAN : PDR_Select(w, r, raises)
    \/ \E w \in Workers, raises \in BOOLEAN : PDR_MarkProcessing(w, raises)
    \/ \E w \in Workers, raises \in BOOLEAN : PDR_DeleteProfiles(w, raises)
    \/ \E w \in Workers, raises \in BOOLEAN : PDR_DeleteUsers(w, raises)
    \/ \E w \in Workers, raises \in BOOLEAN : PDR_MarkResult(w, raises)
    \/ \E w \in Workers, raises \in BOOLEAN : PDR_Except(w, raises)
    \/ Tick(LifecycleInstants)

SpecDeletion == Init /\ [][NextDeletion]_vars

\* deletion requests when the processor may stop mid-processing: the first
\* worker may stop once, the second one is the processor that is started
\* afterwards; a call that was started runs on, and calls of
\* process_deletion_request keep being made
Survivor == "w2"

ProcessingStep(w) ==
    \/ PDR_MarkProcessing(w, FALSE)
    \/ \E raises \in BOOLEAN : PDR_DeleteProfiles(w, raises)
    \/ \E raises \in BOOLEAN : PDR_DeleteUsers(w, raises)
    \/ PDR_MarkResult(w, FALSE)

LaterCall(w) == \E r \in 1..MaxRequests : PDR_Select(w, r, FALSE)

NextCrash ==
    \/ \E u \in UserIds : CreateDeletionRequest(u, FALSE)
    \/ \E w \in Workers : LaterCall(w)
    \/ \E w \in Workers : ProcessingStep(w)
    \/ PDR_Crash(CHOOSE w \in Workers : w # Survivor)
    \/ Tick(LifecycleInstants)

SpecCrash ==
    /\ Init
    /\ [][NextCrash]_vars
    /\ \A w \in Workers : WF_vars(ProcessingStep(w))
    /\ SF_vars(LaterCall(Survivor))

\* two invocations of process_deletion_request that interleave at their
\* awaited storage calls, none of which raises except the two DELETEs
NextInterleaved ==
    \/ \E u \in UserIds : CreateDeletionRequest(u, FALSE)
    \/ \E w \in Workers : LaterCall(w)
    \/ \E w \in Workers : ProcessingStep(w)
    \/ Tick(LifecycleInstants)

SpecInterleaved == Init /\ [][NextInterleaved]_vars

\* retention: anonymization at the three levels and the expired-data sweep
NextRetention ==
    \/ \E u \in UserIds, level \in AnonymizationLevels, first_raise \in 0..2 :
          AnonymizeUserData(u, level, first_raise)
    \/ \E find_raises \in BOOLEAN, first_raise \in [UserIds -> 0..2] :
          CleanupExpiredData(find_raises, first_raise)
    \/ Tick(LifecycleInstants)

SpecRetention == Init /\ [][NextRetention]_vars

\* expiry: is_data_expired for records that reach the end of each retention
\* period at one of the instants of the clock, and find_expired_user_data
\* over users that are soft-deleted, anonymized or removed meanwhile
NextExpiry ==
    \/ \E expiry \in LifecycleInstants, retention_period \in RetentionPeriods :
          IsDataExpiredCall(expiry - RetentionDays(retention_period) * 24 * 60 * 60,
                            retention_period)
    \/ \E find_raises \in BOOLEAN : FindExpired(find_raises)
    \/ \E u \in UserIds, level \in AnonymizationLevels : AnonymizeUserData(u, level, 0)
    \/ Tick(LifecycleInstants)

SpecExpiry == Init /\ [][NextExpiry]_vars

\* the access-control middleware
RequestPaths ==
    { P(<<"api", "v1", "health">>),
      P(<<"api", "v1", "users">>),
      P(<<"api", "v1", "users", "0">>),
      P(<<"api", "v1", "users", "1">>),
      P(<<"api", "v1", "users", "2">>),
      P(<<"api", "v1", "users", "me">>),
      P(<<"api", "v1", "admin", "users">>) }
Methods == {"GET", "POST", "DELETE"}
Tokens == {"token-a", "token-b"}
Authorizations ==
    {[kind |-> "absent"], [kind |-> "empty"], [kind |-> "basic"]}
    \cup {[kind |-> "bearer", token |-> t] : t \in Tokens}
HandlerOutcomes == {200, 0}
Scopes == {"admin", "user:read"}
AuthUserInfos == [cognito_user_id : {"sub-1", "sub-2"}, scope : SUBSET Scopes]

NextAccess ==
    \/ \E path \in RequestPaths, method \in Methods, a \in Authorizations,
          handler \in HandlerOutcomes, log_ok \in BOOLEAN,
          check_raises \in CheckFailures :
          HandleRequest(path, method, a, handler, log_ok, check_raises)
    \/ \E ui \in AuthUserInfos, owner \in {"sub-1", "sub-2"}, scope \in Scopes,
          allow_self \in BOOLEAN :
          CheckResourcePermission(ui, owner, scope, allow_self)

SpecAccess == Init /\ [][NextAccess]_vars

\* the rule lookup of the access control middleware: paths that equal an
\* endpoint, that match one after the strip of "/", that match a
\* placeholder, that differ in length or in a literal segment, and paths
\* below an admin-only endpoint
LookupPaths ==
    { P(<<"api", "v1", "users">>),
      P(<<"api", "v1", "users">>) \o <<"/">>,
      P(<<"api", "v1", "users", "1">>),
      P(<<"api", "v1", "users", "{user_id}">>),
      P(<<"api", "v1", "users", "1", "posts">>),
      P(<<"api", "v1", "consent">>),
      P(<<"api", "v1", "data", "export">>),
      P(<<"api", "v1", "data", "import">>),
      P(<<"api", "v1", "health">>),
      P(<<"api", "v1", "admin", "users", "1">>) }
LookupMethods == {"GET", "POST", "PUT"}
LookupAuthorizations == {[kind |-> "absent"], [kind |-> "bearer", token |-> "token-a"]}

NextLookup ==
    \E path \in LookupPaths, method \in LookupMethods, a \in LookupAuthorizations :
       HandleRequest(path, method, a, 200, TRUE, "none")

SpecLookup == Init /\ [][NextLookup]_vars

\* the audited action: _determine_action over the methods of its table, a
\* method outside it and status codes on both sides of 400, and requests on
\* a classified endpoint whose handler answers below 400, at 400, or raises
ActionMethods == {"GET", "POST", "PUT", "PATCH", "DELETE", "HEAD"}
ActionStatusCodes == {200, 399, 400, 500}
ActionPath == P(<<"api", "v1", "users", "1">>)
ActionRequestMethods == {"GET", "PUT", "PATCH"}
ActionHandlerOutcomes == {200, 400, 0}

NextAction ==
    \/ \E method \in ActionMethods, status_code \in ActionStatusCodes :
          DetermineActionCall(method, status_code)
    \/ \E method \in ActionRequestMethods, a \in LookupAuthorizations,
          handler \in ActionHandlerOutcomes :
          HandleRequest(ActionPath, method, a, handler, TRUE, "none")

SpecAction == Init /\ [][NextAction]_vars

\* the operations of the core together: one incident, one user's data, one
\* deletion request processed by one invocation at a time, one endpoint
CorePath == P(<<"api", "v1", "users", "1">>)

NextCore ==
    \/ \E fails \in {{}, {"audit"}} : CreateIncident("data_breach", "critical", 101, fails)
    \/ \E st \in {"investigating", "resolved"}, fails \in {{}, {"audit"}} :
          UpdateIncidentStatus(1, st, Null, Null, fails)
    \/ \E level \in AnonymizationLevels : AnonymizeUserData(1, level, 0)
    \/ CleanupExpiredData(FALSE, [u \in UserIds |-> 0])
    \/ CreateDeletionRequest(1, FALSE)
    \/ \E raises \in BOOLEAN : PDR_Select("w1", 1, raises)
    \/ \E raises \in BOOLEAN : PDR_MarkProcessing("w1", raises)
    \/ \E raises \in BOOLEAN : PDR_DeleteProfiles("w1", raises)
    \/ \E raises \in BOOLEAN : PDR_DeleteUsers("w1", raises)
    \/ \E raises \in BOOLEAN : PDR_MarkResult("w1", raises)
    \/ \E raises \in BOOLEAN : PDR_Except("w1", raises)
    \/ \E log_ok \in BOOLEAN :
          HandleRequest(CorePath, "GET", [kind |-> "bearer", token |-> "token-a"],
                        200, log_ok, "none")

SpecCore == Init /\ [][NextCore]_vars

\* the application as main.py assembles it; settings.environment is "dev"
\* unless ENVIRONMENT is set, main.py itself tests for "prod", and
\* setup_security_middleware for "production" (with the limits the model's
\* limiter stands for) and "staging"
Environments == {"production", "prod", "dev"}

NextPipeline ==
    \/ \E environment \in Environments, c \in Clients : AppRequest(environment, c)
    \/ Tick(Instants)

SpecPipeline == Init /\ [][NextPipeline]_vars

\* the attack detector: requests with and without attack patterns in the
\* path, the query and the user agent
DetectorPaths ==
    { <<"/", "api", "/", "v1", "/", "users">>,
      <<"/", "API", "/", "../", "etc">>,
      <<"/", "<SCRIPT", "alert">>,
      <<"/", "search", "drop table", "%2e%2e">> }
DetectorQueries ==
    { <<>>, <<"q=", "UNION SELECT">>, <<"q=", "xp_", "union select">>,
      <<"next=", "javascript:", "eval(">>, <<"page=", "2">> }
DetectorUserAgents == { <<>>, <<"Mozilla">>, <<"SQLMap", "/1.7">>, <<"burp", "nikto">> }
DetectorDownstream == {Some(200), Some(404), Some(500), Null}

NextDetector ==
    \E url_path \in DetectorPaths, query \in DetectorQueries,
       user_agent \in DetectorUserAgents, downstream \in DetectorDownstream :
        SecurityLoggingDispatch(url_path, query, user_agent, downstream)

SpecDetector == Init /\ [][NextDetector]_vars

\* incident creation alone, for every severity
AllSeverities == {"low", "medium", "high", "critical"}
CreationAffectedUsersCounts == {0, 100, 101, 500}

NextCreation ==
    \E t \in IncidentTypes, s \in AllSeverities, n \in CreationAffectedUsersCounts,
       fails \in CreateFailures :
        CreateIncident(t, s, n, fails)

SpecCreation == Init /\ [][NextCreation]_vars

\* the operations that write an audit entry about themselves: incident
\* creation, status update and a request on a classified endpoint
LoggedPaths == {P(<<"api", "v1", "users", "1">>), P(<<"api", "v1", "users", "2">>)}
LoggedAuthorizations == {[kind |-> "absent"], [kind |-> "bearer", token |-> "token-a"]}

NextLogged ==
    \/ \E fails \in CreateFailures :
          CreateIncident("data_breach", "critical", 101, fails)
    \/ \E i \in 1..MaxIncidents, st \in {"investigating", "resolved"},
          fails \in UpdateFailures :
          UpdateIncidentStatus(i, st, Null, Null, fails)
    \/ \E path \in LoggedPaths, a \in LoggedAuthorizations,
          handler \in HandlerOutcomes, log_ok \in BOOLEAN :
          HandleRequest(path, "GET", a, handler, log_ok, "none")

SpecLogged == Init /\ [][NextLogged]_vars

\* AuditLogger alone: calls of log_data_access with a storage that accepts
\* or refuses the insert
\* get_system_audit_summary(start_date, end_date)

\* WHERE created_at BETWEEN %s AND %s
RowsBetween(log, start_date, end_date) ==
    SelectSeq(log, LAMBDA row : start_date <= row.created_at /\ row.created_at <= end_date)

\* DATE(created_at), as the number of the day
SecondsPerDay == 24 * 60 * 60
DateOf(created_at) == created_at \div SecondsPerDay

\* SELECT action, COUNT(*) ... GROUP BY action
ActionStats(rows) ==
    {[action |-> a, count |-> Cardinality({i \in DOMAIN rows : rows[i].action = a})] :
        a \in {rows[i].action : i \in DOMAIN rows}}

\* SELECT data_category, COUNT(*) ... GROUP BY data_category
CategoryStats(rows) ==
    {[data_category |-> c,
      count |-> Cardinality({i \in DOMAIN rows : rows[i].data_category = c})] :
        c \in {rows[i].data_category : i \in DOMAIN rows}}

\* SELECT DATE(created_at), COUNT(*) ... GROUP BY DATE(created_at)
DailyStats(rows) ==
    {[date |-> d,
      count |-> Cardinality({i \in DOMAIN rows : DateOf(rows[i].created_at) = d})] :
        d \in {DateOf(rows[i].created_at) : i \in DOMAIN rows}}

\* start_date.isoformat(), end_date.isoformat()
Period(start_date, end_date) ==
    [start_date |-> <<"iso", start_date>>, end_date |-> <<"iso", end_date>>]

SummaryQueries == 4

GetSystemAuditSummaryValueUncaught(log, start_date, end_date, first_raise) ==
    [raised |-> first_raise # 0,
     period |-> Period(start_date, end_date),
     total_access_count |-> Len(RowsBetween(log, start_date, end_date)),
     action_statistics |-> ActionStats(RowsBetween(log, start_date, end_date)),
     category_statistics |-> CategoryStats(RowsBetween(log, start_date, end_date)),
     daily_statistics |-> DailyStats(RowsBetween(log, start_date, end_date)),
     error |-> Null]

\* what the call returns; first_raise is the query that raises (0: none).
\* The four queries sit in one try, whose except branch returns the summary
\* of zero counts with the text of the exception.
GetSystemAuditSummaryValue(log, start_date, end_date, first_raise) ==
    LET rows == RowsBetween(log, start_date, end_date)
    IN  IF first_raise = 0
        THEN [raised |-> FALSE,
              period |-> Period(start_date, end_date),
              total_access_count |-> Len(rows),
              action_statistics |-> ActionStats(rows),
              category_statistics |-> CategoryStats(rows),
              daily_statistics |-> DailyStats(rows),
              error |-> Null]
        ELSE [raised |-> FALSE,
              period |-> Period(start_date, end_date),
              total_access_count |-> 0,
              action_statistics |-> {},
              category_statistics |-> {},
              daily_statistics |-> {},
              error |-> Some(<<"query", first_raise>>)]

GetSystemAuditSummary(start_date, end_date, first_raise) ==
    /\ ret' = [op |-> "get_system_audit_summary", start_date |-> start_date,
               end_date |-> end_date, first_raise |-> first_raise,
               value |-> GetSystemAuditSummaryValue(audit_logs, start_date, end_date,
                                                    first_raise)]
    /\ UNCHANGED <<now, rate_vars, audit_logs, inc_vars, data_vars, del_vars>>

AuditUserIds == {Null, Some(1)}
AuditActions == {"read", "delete"}
AuditCategories == {"personal_info", "system_data"}
AuditTargets == {Null, Some(2)}

NextAudit ==
    \E user_id \in AuditUserIds, action \in AuditActions,
       data_category \in AuditCategories, target_user_id \in AuditTargets,
       storage_ok \in BOOLEAN :
        RecordDataAccess(user_id, action, data_category, target_user_id, storage_ok)

SpecAudit == Init /\ [][NextAudit]_vars

\* the audit log and its summary over ranges that hold none, some or all
\* of the rows, with a query that may fail
SummaryInstants == {0, 86400}
SummaryDates == {0, 3600, 90000}

NextSummary ==
    \/ \E action \in AuditActions, data_category \in AuditCategories :
          RecordDataAccess(Some(1), action, data_category, Null, TRUE)
    \/ \E start_date \in SummaryDates, end_date \in SummaryDates,
          first_raise \in 0..SummaryQueries :
          GetSystemAuditSummary(start_date, end_date, first_raise)
    \/ Tick(SummaryInstants)

SpecSummary == Init /\ [][NextSummary]_vars

\* ------------------------------------------------------------------------
\* Rate limiter properties
\* ------------------------------------------------------------------------
Windows == {"burst", "minute", "hour"}

Horizon(w) ==
    CASE w = "burst" -> BurstSeconds
      [] w = "minute" -> MinuteSeconds
      [] w = "hour" -> HourSeconds

Limit(w) ==
    CASE w = "burst" -> BurstLimit
      [] w = "minute" -> MinuteLimit
      [] w = "hour" -> HourLimit

\* number of requests recorded for client c less than Horizon(w) before t
RecordedWithin(c, w, t) ==
    Cardinality({i \in DOMAIN recorded[c] : t - recorded[c][i] < Horizon(w)})

\* C1: for every client and each window, when more requests than the
\* window's limit have been recorded for the client inside the window's
\* horizon, the next check for that client (alone or inside dispatch) denies.
C1_ExceededWindowDenies ==
    [][\A c \in Clients : \A w \in Windows :
          (/\ ret'.op \in {"check", "dispatch"}
           /\ ret'.client = c
           /\ RecordedWithin(c, w, now) > Limit(w))
          => ret'.value = TRUE]_vars

\* C1 witness: a check has denied a client with more than the hour limit
\* recorded inside the hour while its burst and minute windows are empty.
C1_Witness ==
    \E c \in Clients :
        /\ ret.op = "check" /\ ret.client = c /\ ret.value = TRUE
        /\ RecordedWithin(c, "hour", now) > HourLimit
        /\ RecordedWithin(c, "minute", now) = 0
        /\ RecordedWithin(c, "burst", now) = 0

\* ------------------------------------------------------------------------
\* Incident properties
\* ------------------------------------------------------------------------
\* C2: every incident starts in "detected" and no step moves the status of
\* an incident to an earlier position of detected -> investigating ->
\* contained -> resolved; an update from "resolved" to "investigating" is
\* rejected.
C2_StatusMonotonic ==
    [][/\ \A i \in DOMAIN incidents' \ DOMAIN incidents :
             incidents'[i].status = "detected"
       /\ \A i \in DOMAIN incidents :
             Rank(incidents'[i].status) >= Rank(incidents[i].status)
       /\ (/\ ret'.op = "update_incident_status"
           /\ ret'.incident_id \in DOMAIN incidents
           /\ incidents[ret'.incident_id].status = "resolved"
           /\ ret'.new_status = "investigating")
          => ret'.value = FALSE]_vars

\* C3: an update whose requested status is not strictly later than the
\* stored status does not return success and leaves the stored incident
\* (status, response_actions, resolution_date) as it was.
C3_IllegalTransitionRejected ==
    [][(/\ ret'.op = "update_incident_status"
        /\ ret'.incident_id \in DOMAIN incidents
        /\ ~(Rank(ret'.new_status) > Rank(incidents[ret'.incident_id].status)))
       => /\ ret'.value = FALSE
          /\ incidents' = incidents]_vars

\* ------------------------------------------------------------------------
\* Deletion request properties
\* ------------------------------------------------------------------------
TerminalStatuses == {"completed", "failed"}

\* C4: a request that becomes completed or failed was processing: nothing
\* sets a request back to pending, so the step into completed or failed
\* starts from processing.
C4_NeverSkipsProcessing ==
    [][\A r \in DOMAIN deletion_requests :
          (/\ deletion_requests'[r].status \in TerminalStatuses
           /\ deletion_requests[r].status \notin TerminalStatuses)
          => deletion_requests[r].status = "processing"]_vars

\* C5: once a request is completed or failed no step of
\* process_deletion_request changes its status.
C5_TerminalStatusKept ==
    [][\A r \in DOMAIN deletion_requests :
          deletion_requests[r].status \in TerminalStatuses
          => deletion_requests'[r].status = deletion_requests[r].status]_vars

\* C6: rows of the user are deleted only by an invocation whose request is
\* no longer stored as pending; an invocation whose deletion succeeded ends with
\* its request completed, and a request becomes completed only by an
\* invocation whose deletion succeeded.
C6_TwoStepCommit ==
    [][/\ (users' # users \/ user_profiles' # user_profiles)
          => \E w \in Workers :
                /\ pc[w] \in {"delete_profiles", "delete_users"}
                /\ local[w].request_id \in DOMAIN deletion_requests
                /\ deletion_requests[local[w].request_id].status # "pending"
       /\ \A w \in Workers :
             (/\ pc[w] \in {"mark_result", "except"}
              /\ pc'[w] = "idle"
              /\ local[w].success)
             => deletion_requests'[local[w].request_id].status = "completed"
       /\ \A r \in DOMAIN deletion_requests :
             (/\ deletion_requests'[r].status = "completed"
              /\ deletion_requests[r].status # "completed")
             => \E w \in Workers :
                   /\ pc[w] = "mark_result" /\ pc'[w] = "idle"
                   /\ local[w].request_id = r
                   /\ local[w].success]_vars

\* ------------------------------------------------------------------------
\* Access control properties
\* ------------------------------------------------------------------------
\* the caller _check_access_permissions sees in a request
Caller(authorization) == GetUserFromToken(authorization)[1]

\* C7: for a request with a valid token on a personal-data endpoint that is
\* not admin-only and whose path addresses a user id, the caller is allowed
\* when it owns the resource or is an administrator and denied when neither;
\* on an admin-only endpoint a caller who is not an administrator is denied
\* (both when no step of the check raises);
\* check_resource_permission allows exactly on scope or ownership.
C7_DecisionTable ==
    [][/\ (/\ ret'.op = "request"
           /\ ret'.authorization.kind = "bearer"
           /\ ret'.check_raises = "none"
           /\ ret'.personal /\ ~ret'.admin_endpoint
           /\ ExtractUserIdFromPath(ret'.path) # Null)
          => (ret'.handler_called
              <=> \/ ExtractUserIdFromPath(ret'.path)[1] = Caller(ret'.authorization).id
                  \/ Caller(ret'.authorization).is_admin)
       /\ (/\ ret'.op = "request"
           /\ ret'.authorization.kind = "bearer"
           /\ ret'.admin_endpoint
           /\ ~Caller(ret'.authorization).is_admin)
          => ~ret'.handler_called
       /\ (/\ ret'.op = "check_resource_permission"
           /\ ret'.allow_self)
          => (ret'.value
              <=> \/ ret'.required_scope \in ret'.user_info.scope
                  \/ ret'.user_info.cognito_user_id = ret'.resource_owner_id)]_vars

C9_OneEntryPerDecision ==
    [][(/\ ret'.op = "request"
        /\ ret'.personal)
       => /\ Len(audit_logs') = Len(audit_logs) + 1
          /\ audit_logs'[Len(audit_logs')].data_category = "personal_info"
          /\ audit_logs'[Len(audit_logs')].action =
                DetermineAction(ret'.method,
                    IF ret'.response = Null THEN 500 ELSE ret'.response[1])]_vars

\* ------------------------------------------------------------------------
\* Audit log properties
\* ------------------------------------------------------------------------
\* C10: over every step of the core the audit log keeps the rows it had, in
\* their order and unchanged; it only grows.
C10_AppendOnly ==
    [][/\ Len(audit_logs') >= Len(audit_logs)
       /\ SubSeq(audit_logs', 1, Len(audit_logs)) = audit_logs]_vars

\* C10 witness: the log holds an incident row and a data-access row, in the
\* order they were written, after the user's rows have been hard-deleted
\* and the deletion request completed.
C10_Witness ==
    /\ Len(audit_logs) = 2
    /\ audit_logs[1].data_category = "system_data"
    /\ audit_logs[2].data_category = "personal_info"
    /\ users[1] = Null /\ user_profiles[1] = Null
    /\ deletion_requests # <<>>
    /\ deletion_requests[1].status = "completed"
    /\ incidents # <<>>
    /\ incidents[1].status = "resolved"

\* ------------------------------------------------------------------------
\* AuditLogger properties
\* ------------------------------------------------------------------------
\* C11: a call of log_data_access never raises to its caller; when the
\* storage append succeeds it returns True and exactly one entry, the one of
\* the call, has been appended; when the append fails it returns False and
\* the log is unchanged.
C11_RecordNeverRaises ==
    [][ret'.op = "log_data_access" =>
          /\ ~ret'.raised
          /\ ret'.value = ret'.storage_ok
          /\ ret'.value => audit_logs' = Append(audit_logs, ret'.entry)
          /\ ~ret'.value => audit_logs' = audit_logs]_vars

\* C11 witness: a call whose append failed has returned False and left the
\* one stored entry alone.
C11_Witness ==
    /\ ret.op = "log_data_access"
    /\ ~ret.storage_ok /\ ~ret.value /\ ~ret.raised
    /\ Len(audit_logs) = 1
    /\ audit_logs[1] # ret.entry
\* C12: a failing audit append does not change the outcome of the operation
\* being logged: incident creation, status update and a request on a
\* classified endpoint hand back what they hand back for the same input and
\* state when the append succeeds, and the incident row is written alike.
C12_AuditFailureKeepsOutcome ==
    [][/\ ret'.op = "create_incident" =>
            /\ ret'.value = CreateIncidentValue(Len(incidents) + 1,
                                                ret'.fails \ {"audit"})
            /\ Len(incidents') = IF "insert" \in ret'.fails
                                 THEN Len(incidents) ELSE Len(incidents) + 1
       /\ ret'.op = "update_incident_status" =>
            /\ ret'.value = UpdateIncidentStatusValue(
                                ret'.incident_id \in DOMAIN incidents,
                                ret'.fails \ {"audit"})
            /\ ret'.value => incidents'[ret'.incident_id].status = ret'.new_status
       /\ (ret'.op = "request" /\ ret'.personal) =>
            ret'.response = RequestResponse(ret'.handler_called, ret'.handler, TRUE)]_vars

\* C12 witness: an incident was created and its id handed back although the
\* audit append of the call failed.
C12_Witness ==
    /\ ret.op = "create_incident"
    /\ "audit" \in ret.fails
    /\ ret.value = 1
    /\ Len(incidents) = 1
    /\ audit_logs = <<>>
\* ------------------------------------------------------------------------
\* Rate limiter: order, threshold, pruning, failure
\* ------------------------------------------------------------------------
\* C13: the windows are evaluated in the order burst, minute, hour, and the
\* rejection reason reported with a denial is the first window in that order
\* whose limit is reached.
C13_DenialCitesFirstWindow ==
    [][(ret'.op = "dispatch" /\ ret'.value) =>
          \A c \in Clients : ret'.client = c =>
              ret'.response.error =
                  LimitedBy(CleanupRequestHistory(request_history[c], now),
                            CleanupBurstHistory(burst_history[c], now), now)]_vars
\* C14: for every client a check (alone or inside dispatch) allows exactly
\* when the number of the client's requests recorded inside each window is
\* strictly below the window's limit, and denies as soon as the count inside
\* some window has reached its limit.
C14_Threshold ==
    [][\A c \in Clients :
          (ret'.op \in {"check", "dispatch"} /\ ret'.client = c) =>
              (ret'.value <=> \E w \in Windows : RecordedWithin(c, w, now) >= Limit(w))]_vars

\* C14 witness: a check has denied a client whose count inside the minute
\* has just reached the minute limit while its burst window is below its
\* limit.
C14_Witness ==
    \E c \in Clients :
        /\ ret.op = "check" /\ ret.client = c /\ ret.value = TRUE
        /\ RecordedWithin(c, "minute", now) = MinuteLimit
        /\ RecordedWithin(c, "hour", now) = HourLimit
        /\ RecordedWithin(c, "burst", now) < BurstLimit
\* C15: after every check or record for a client at time now (alone, inside
\* dispatch, or as the cleanup they both run) every burst entry stored for
\* that client is newer than now - 10 s and every entry of its request
\* history is newer than now - 3600 s; the entries kept are those the client
\* had, and the histories of every other client are left as they were.
C15_Pruned ==
    [][\A c \in Clients :
          (ret'.op \in {"check", "record", "dispatch", "cleanup"} /\ ret'.client = c) =>
              /\ \A i \in DOMAIN burst_history'[c] :
                    burst_history'[c][i] > now' - BurstSeconds
              /\ \A i \in DOMAIN request_history'[c] :
                    request_history'[c][i] > now' - HourSeconds
              /\ \A t \in Instants :
                    t > now' - HourSeconds =>
                        Len(Newer(request_history'[c], t - 1)) >=
                            Len(Newer(request_history[c], t - 1))
              /\ \A d \in Clients \ {c} :
                    /\ request_history'[d] = request_history[d]
                    /\ burst_history'[d] = burst_history[d]]_vars

\* C15 witness: a check has emptied the histories of a client whose requests
\* were all older than an hour, while the other client still holds a burst
\* entry older than 10 s.
C15_Witness ==
    \E c \in Clients : \E d \in Clients \ {c} :
        /\ ret.op = "check" /\ ret.client = c
        /\ recorded[c] # <<>>
        /\ request_history[c] = <<>> /\ burst_history[c] = <<>>
        /\ \E i \in DOMAIN burst_history[d] : burst_history[d][i] <= now - BurstSeconds
\* the decision a check for client c returns in the current state
Decision(c) == IsRateLimitedValue(request_history[c], burst_history[c], now)

\* C16 as stated: for every client, check calls with no record in between
\* return the same decision, whatever else happens between them.
C16_SameDecisionUntilRecord ==
    [][recorded' = recorded => \A c \in Clients : Decision(c)' = Decision(c)]_vars

\* C16 amended: for every client, check calls at the same clock reading with
\* no record in between return the same decision, and a pruning directly
\* after a check, record or pruning leaves the stored histories unchanged.
C16_RepeatableAtSameInstant ==
    [][/\ (recorded' = recorded /\ now' = now) =>
            \A c \in Clients :
                \/ /\ request_history'[c] = request_history[c]
                   /\ burst_history'[c] = burst_history[c]
                \/ Decision(c)' = Decision(c)
       /\ \A c \in Clients :
            (ret'.op \in {"check", "record", "dispatch", "cleanup"} /\ ret'.client = c) =>
                /\ CleanupRequestHistory(request_history'[c], now') = request_history'[c]
                /\ CleanupBurstHistory(burst_history'[c], now') = burst_history'[c]]_vars

\* C16 witness: a check has pruned a client's history and denied the client,
\* a further check in the state it left denies again, and a further pruning
\* leaves the stored histories as they are.
C16_Witness ==
    \E c \in Clients :
        /\ ret.op = "check" /\ ret.client = c /\ ret.value = TRUE
        /\ Decision(c)
        /\ Len(request_history[c]) < Len(recorded[c])
        /\ CleanupRequestHistory(request_history[c], now) = request_history[c]
        /\ CleanupBurstHistory(burst_history[c], now) = burst_history[c]
\* C17: when the check or record step of the limiter raises while handling
\* a request, the failure is logged by the limiter and the request is passed
\* on to the next stage.
C17_FailsOpen ==
    [][ret'.op = "dispatch_raised" => (ret'.logged /\ ret'.passed)]_vars
\* ------------------------------------------------------------------------
\* Access control: failures, statuses
\* ------------------------------------------------------------------------
\* C18: when the token lookup or the permission evaluation of the access
\* check raises for a request on a classified endpoint, the decision is Deny:
\* the response is the denial, the business handler is not invoked, and
\* a raising evaluation is answered with the reason of the except branch.
C18_FailsClosed ==
    [][(/\ ret'.op = "request"
        /\ ret'.personal \/ ret'.admin_endpoint
        /\ ret'.check_raises # "none") =>
          /\ ~ret'.handler_called
          /\ ret'.response = Some(403)
          /\ audit_logs' = audit_logs
          /\ (ret'.check_raises = "evaluation" /\ ret'.authorization.kind = "bearer")
                => ret'.reason = CheckFailed]_vars

\* C18 witness: a caller's request for its own data, allowed when nothing
\* raises, has been denied without reaching the handler because the
\* evaluation raised.
C18_Witness ==
    /\ ret.op = "request"
    /\ ret.path = P(<<"api", "v1", "users", "1">>) /\ ret.method = "GET"
    /\ ret.authorization.kind = "bearer"
    /\ ret.check_raises = "evaluation"
    /\ ret.reason = CheckFailed
    /\ ~ret.handler_called /\ ret.response = Some(403)
\* C19: a denial is answered by cause: 401 when the request carries no or an
\* invalid caller identity, 403 when the identified caller lacks ownership
\* or the administrator role, and 429 with an error payload of error_code
\* and message when the rate limiter denies.
C19_StatusByCause ==
    [][/\ (ret'.op = "request" /\ ~ret'.handler_called) =>
            ret'.response =
                Some(IF ret'.reason \in {AuthenticationRequired, InvalidToken}
                     THEN 401 ELSE 403)
       /\ (ret'.op = "dispatch" /\ ret'.value) =>
            /\ ret'.response.status_code = 429
            /\ {"error_code", "message"} \subseteq DOMAIN ret'.response]_vars
\* ------------------------------------------------------------------------
\* Order of the stages
\* ------------------------------------------------------------------------
\* the stages the order is stated for, as they occur in what ran
OrderedStages(stages) ==
    SelectSeq(stages, LAMBDA stage :
        stage \in {"RateLimitMiddleware", "SecurityLoggingMiddleware",
                   "DataAccessControlMiddleware", "handler"})

\* C20: for every request the stages run in the order rate limiter, attack
\* detector, access-control engine (which writes the audit entry after the
\* handler), business handler; when the rate limiter denies, the response is
\* 429 and none of the later stages runs.
C20_StageOrder ==
    [][ret'.op = "app_request" =>
          IF ret'.value
          THEN /\ ret'.response.status_code = 429
               /\ OrderedStages(ret'.stages) = <<"RateLimitMiddleware">>
          ELSE OrderedStages(ret'.stages) =
                  <<"RateLimitMiddleware", "SecurityLoggingMiddleware",
                    "DataAccessControlMiddleware", "handler">>]_vars
\* ------------------------------------------------------------------------
\* Attack detector
\* ------------------------------------------------------------------------
\* C21: for every path, query and user agent, whatever the detector finds,
\* the request is passed to the next stage and the response returned is
\* exactly the downstream response.
C21_DetectorNeverDenies ==
    [][ret'.op = "security_logging" =>
          /\ ret'.call_next_called
          /\ ret'.response = ret'.downstream]_vars

\* C21 witness: a request with an SQL-injection, a path-traversal and a
\* scanner finding has been passed on and answered with the downstream 200.
C21_Witness ==
    /\ ret.op = "security_logging"
    /\ \E i \in DOMAIN ret.findings : ret.findings[i].kind = "sql_injection"
    /\ \E i \in DOMAIN ret.findings : ret.findings[i].kind = "path_traversal"
    /\ \E i \in DOMAIN ret.findings : ret.findings[i].kind = "user_agent"
    /\ ret.call_next_called
    /\ ret.response = Some(200)
\* ------------------------------------------------------------------------
\* Incident properties: resolution date, breach notification
\* ------------------------------------------------------------------------
\* C22: after every step an incident has a resolution date if and only if
\* its status is resolved, and a resolution date, once set, is not changed
\* by a later update.
C22_ResolutionDate ==
    [][/\ \A i \in DOMAIN incidents' :
            incidents'[i].resolution_date # Null <=> incidents'[i].status = "resolved"
       /\ \A i \in DOMAIN incidents :
            incidents[i].resolution_date # Null =>
                incidents'[i].resolution_date = incidents[i].resolution_date]_vars
\* the incident a successful create_incident has just stored
Created == incidents'[Len(incidents')]

\* C23: on incident creation the breach notification is called for if and
\* only if the type is data_breach and the severity is high or critical or
\* the affected-user count exceeds 100; an incident of another type is
\* never flagged, and the stored flag is raised only for a qualifying
\* incident, and always when the update that stores it succeeds.
C23_BreachFlag ==
    [][(ret'.op = "create_incident" /\ ret'.created) =>
          LET qualifies ==
                /\ Created.incident_type = "data_breach"
                /\ \/ Created.severity \in {"high", "critical"}
                   \/ Created.affected_users_count > 100
          IN  /\ ret'.gdpr_required <=> qualifies
              /\ Created.reported_to_authority => qualifies
              /\ (qualifies /\ "gdpr" \notin ret'.fails) => Created.reported_to_authority
              /\ Created.incident_type # "data_breach" =>
                    (~ret'.gdpr_required /\ ~Created.reported_to_authority)]_vars

\* C23 witness: a data breach of medium severity with 101 affected users has
\* been created and flagged.
C23_Witness ==
    /\ ret.op = "create_incident" /\ ret.created /\ ret.gdpr_required
    /\ \E i \in DOMAIN incidents :
          /\ incidents[i].incident_type = "data_breach"
          /\ incidents[i].severity = "medium"
          /\ incidents[i].affected_users_count = 101
          /\ incidents[i].reported_to_authority
\* C24: after the creation of an incident that qualifies for breach
\* notification the stored incident is flagged as reported to the authority
\* and the date stored for the authority report equals its detection date
\* plus 72 hours.
C24_StoredDeadline ==
    [][(ret'.op = "create_incident" /\ ret'.created /\ ret'.gdpr_required) =>
          /\ Created.reported_to_authority
          /\ Created.authority_report_date =
                Some(Created.detection_date + GdprDeadlineHours * 3600)]_vars
\* the calls of a creation that announce the incident itself
InitialNotifications(notifications) ==
    SelectSeq(notifications, LAMBDA n : n.title = "security_incident")

\* C25: each successful incident creation emits exactly one initial
\* notification, chosen by the severity alone: the critical alert for
\* critical and high, the business notification for low and medium.
C25_OneInitialNotification ==
    [][(ret'.op = "create_incident" /\ ret'.created) =>
          LET initial == InitialNotifications(ret'.notifications)
          IN  /\ Len(initial) = 1
              /\ initial[1].function =
                    IF Created.severity \in {"critical", "high"}
                    THEN "send_critical_alert"
                    ELSE "send_business_notification"]_vars

\* C25 witness: an incident of another type than data breach, of severity
\* low and with 500 affected users, has been created and announced by the
\* business notification alone.
C25_Witness ==
    /\ ret.op = "create_incident" /\ ret.created
    /\ incidents[Len(incidents)].incident_type = "other"
    /\ incidents[Len(incidents)].severity = "low"
    /\ incidents[Len(incidents)].affected_users_count = 500
    /\ ret.notifications = <<[function |-> "send_business_notification",
                              title |-> "security_incident", deadline |-> Null]>>

\* C26: the creation of a qualifying incident emits the initial
\* notification first and then one further alert that carries the deadline
\* 72 hours after the detection; the creation of any other incident emits
\* the initial notification only.
C26_SecondAlert ==
    [][(ret'.op = "create_incident" /\ ret'.created) =>
          /\ ret'.notifications[1].title = "security_incident"
          /\ IF ret'.gdpr_required
             THEN /\ Len(ret'.notifications) = 2
                  /\ ret'.notifications[2].title = "gdpr_notification_required"
                  /\ ret'.notifications[2].deadline =
                        Some(Created.detection_date + GdprDeadlineHours * 3600)
             ELSE Len(ret'.notifications) = 1]_vars

\* C27: a deletion request that is in status processing, the processor
\* having stopped mid-processing or not, is taken up by a later call of
\* process_deletion_request and eventually reaches completed or failed.
C27_ProcessingRetried ==
    \A r \in 1..MaxRequests :
        (r \in DOMAIN deletion_requests /\ deletion_requests[r].status = "processing")
            ~> (r \in DOMAIN deletion_requests
                  /\ deletion_requests[r].status \in TerminalStatuses)

\* the rows of every user other than u are the same before and after a step
OthersUnchanged(u) ==
    \A v \in UserIds \ {u} : users'[v] = users[v] /\ user_profiles'[v] = user_profiles[v]

\* a call of anonymize_user_data at the given level for a user whose user
\* row and profile row exist
AnonymizeCall(level) ==
    /\ ret'.op = "anonymize_user_data" /\ ret'.level = level
    /\ users[ret'.user_id] # Null /\ user_profiles[ret'.user_id] # Null

\* C28: anonymize_user_data(u, ANONYMIZE) retains the record: afterwards
\* the user row and the profile row of u exist with the ids they had, the
\* rows of every other user are unchanged, and when the call returns True
\* the profile's first_name, last_name and bio hold the placeholder values
\* and its avatar_url is null.
C28_AnonymizeRetainsRecord ==
    [][AnonymizeCall("anonymize") =>
          \E u \in {ret'.user_id} :
              /\ users'[u] # Null /\ users'[u][1].id = users[u][1].id
              /\ user_profiles'[u] # Null
              /\ user_profiles'[u][1].id = user_profiles[u][1].id
              /\ user_profiles'[u][1].user_id = u
              /\ OthersUnchanged(u)
              /\ ret'.value =>
                    /\ user_profiles'[u][1].first_name = <<"anonymized">>
                    /\ user_profiles'[u][1].last_name = <<"user">>
                    /\ user_profiles'[u][1].bio = <<"anonymized notice">>
                    /\ user_profiles'[u][1].avatar_url = Null]_vars

\* C28 witness: user 1 has been anonymized with success; its profile row 11
\* holds the placeholders and no avatar, and the rows of user 2 are the
\* initial ones.
C28_Witness ==
    /\ ret.op = "anonymize_user_data" /\ ret.level = "anonymize"
    /\ ret.user_id = 1 /\ ret.value
    /\ user_profiles[1] # Null /\ user_profiles[1][1].id = 11
    /\ user_profiles[1][1].bio = <<"anonymized notice">>
    /\ user_profiles[1][1].avatar_url = Null
    /\ users[1] # Null /\ users[1][1].id = 1
    /\ users[2] = InitialUsers[2] /\ user_profiles[2] = InitialProfiles[2]

AdmittedInWindowEndingAt(c, w, i) ==
    Cardinality({j \in 1..i : recorded[c][i] - recorded[c][j] < Horizon(w)})

\* C30: whatever the interleaving of the requests handled concurrently, no
\* recorded timestamp is lost (the timestamps recorded for a client less
\* than an hour ago are the ones request_history holds from that hour, each
\* as often as it was recorded, and likewise for burst_history and the last
\* ten seconds), and the number of requests of a client admitted inside any
\* window is at most the limit of that window.
C30_SafeUnderConcurrency ==
    \A c \in Clients :
        /\ Newer(request_history[c], now - HourSeconds) =
              Newer(recorded[c], now - HourSeconds)
        /\ Newer(burst_history[c], now - BurstSeconds) =
              Newer(recorded[c], now - BurstSeconds)
        /\ \A w \in Windows : \A i \in DOMAIN recorded[c] :
              AdmittedInWindowEndingAt(c, w, i) <= Limit(w)

\* C30 witness: while a request of a client is in flight in one task, a
\* request of the same client begun in the other task finds the burst
\* limit reached by the recorded timestamps, all of which are still in the
\* histories, and is answered 429.
C30_Witness ==
    \E c \in Clients :
        /\ in_flight["t1"] # Null /\ in_flight["t1"][1].client = c
        /\ ret.op = "dispatch_begin" /\ ret.task = "t2" /\ ret.client = c
        /\ ret.value
        /\ Len(burst_history[c]) = BurstLimit
        /\ recorded[c] = request_history[c]

\* rule i of the table applies to the path: the path is the rule's endpoint,
\* or it has as many segments as the endpoint and the same segment wherever
\* the endpoint has a literal one
RuleApplies(i, path) ==
    \/ PersonalDataEndpoints[i].endpoint = path
    \/ \E segments \in {Parts(path)}, rule \in {Parts(PersonalDataEndpoints[i].endpoint)} :
          /\ Len(segments) = Len(rule)
          /\ \A k \in DOMAIN rule : rule[k] # "{user_id}" => segments[k] = rule[k]

\* some rule applies to the path and lists the method
Sensitive(path, method) ==
    \E i \in DOMAIN PersonalDataEndpoints :
        RuleApplies(i, path) /\ method \in PersonalDataEndpoints[i].methods

\* C31 as stated: a request is classified as sensitive exactly when a rule
\* applies to its path and lists its method, and every request that is not
\* sensitive reaches the handler and leaves the audit log as it is.
C31_UnmatchedAllowed ==
    [][ret'.op = "request" =>
          /\ ret'.personal <=> Sensitive(ret'.path, ret'.method)
          /\ ~Sensitive(ret'.path, ret'.method) =>
                (ret'.handler_called /\ audit_logs' = audit_logs)]_vars

\* C31: a request is classified as sensitive exactly when a rule applies
\* to its path (by equality, or by segment count and literal segments) and
\* lists its method; a request that is not sensitive never adds an audit
\* entry, and it reaches the handler unless its path starts with an
\* admin-only endpoint.
C31_RuleLookup ==
    [][ret'.op = "request" =>
          /\ ret'.personal <=> Sensitive(ret'.path, ret'.method)
          /\ ~Sensitive(ret'.path, ret'.method) =>
                /\ audit_logs' = audit_logs
                /\ ~ret'.admin_endpoint => ret'.handler_called]_vars

\* C31 witness: a PUT on /api/v1/users/ is classified through the rule of
\* /api/v1/users after the strip of the trailing separator, reaches the
\* handler and is audited.
C31_Witness ==
    /\ ret.op = "request" /\ ret.method = "PUT"
    /\ ret.path = P(<<"api", "v1", "users">>) \o <<"/">>
    /\ ret.personal /\ ret.handler_called
    /\ Len(audit_logs) = 1

\* a header is available when it is present with a value that is not empty
Available(header) == header # Null /\ Len(header[1]) > 0

\* the first comma-separated element of a header value, without the spaces
\* around it
FirstElementTrimmed(value) ==
    LET commas == {i \in DOMAIN value : value[i] = ","}
        last == IF commas = {} THEN Len(value)
                ELSE (CHOOSE i \in commas : \A j \in commas : i <= j) - 1
        inside == {i \in 1..last : value[i] # " "}
    IN  IF inside = {} THEN <<>>
        ELSE SubSeq(value,
                    CHOOSE i \in inside : \A j \in inside : i <= j,
                    CHOOSE i \in inside : \A j \in inside : i >= j)

\* C32: the client identity is the trimmed first comma-separated element of
\* X-Forwarded-For when that header is available; else the value of
\* X-Real-IP when that one is available; else the peer address; so
\* X-Real-IP is used only without an X-Forwarded-For value and the peer
\* address only without both.
C32_ClientIdentity ==
    [][ret'.op = "get_client_ip" =>
          /\ Available(ret'.forwarded_for) =>
                ret'.value = FirstElementTrimmed(ret'.forwarded_for[1])
          /\ (~Available(ret'.forwarded_for) /\ Available(ret'.real_ip)) =>
                ret'.value = ret'.real_ip[1]
          /\ (~Available(ret'.forwarded_for) /\ ~Available(ret'.real_ip)
                 /\ ret'.client # Null) =>
                ret'.value = <<ret'.client[1]>>]_vars

\* C32 witness: with X-Forwarded-For " 203.0.113.1 ,198.51.100.1", an
\* X-Real-IP header and a peer address all present, the identity is
\* 203.0.113.1.
C32_Witness ==
    /\ ret.op = "get_client_ip"
    /\ ret.forwarded_for = Some(<<" ", "203.0.113.1", " ", ",", "198.51.100.1">>)
    /\ ret.real_ip = Some(<<"203.0.113.2">>)
    /\ ret.client = Some("10.0.0.1")
    /\ ret.value = <<"203.0.113.1">>

\* the audit entries whose created_at lies in the range of the last summary
EntriesInRange ==
    {i \in DOMAIN audit_logs :
        ret'.start_date <= audit_logs[i].created_at
        /\ audit_logs[i].created_at <= ret'.end_date}

\* C33: get_system_audit_summary never raises; over a range without audit
\* entries it returns the total 0 and empty groupings by action, by
\* category and by day; when a query fails it returns a summary with the
\* total 0, empty groupings and an error text.
C33_SummaryNeverRaises ==
    [][ret'.op = "get_system_audit_summary" =>
          /\ ~ret'.value.raised
          /\ (EntriesInRange = {} \/ ret'.first_raise # 0) =>
                /\ ret'.value.total_access_count = 0
                /\ ret'.value.action_statistics = {}
                /\ ret'.value.category_statistics = {}
                /\ ret'.value.daily_statistics = {}
          /\ ret'.first_raise # 0 <=> ret'.value.error # Null
          /\ (EntriesInRange # {} /\ ret'.first_raise = 0) =>
                ret'.value.total_access_count = Cardinality(EntriesInRange)]_vars

\* C33 witness: the log holds two entries inside the range asked for, the
\* third query fails, and the summary returned has the total 0 and the
\* error text.
C33_Witness ==
    /\ ret.op = "get_system_audit_summary" /\ ret.first_raise = 3
    /\ Len(audit_logs) = 2
    /\ \A i \in DOMAIN audit_logs :
          ret.start_date <= audit_logs[i].created_at
          /\ audit_logs[i].created_at <= ret.end_date
    /\ ~ret.value.raised
    /\ ret.value.total_access_count = 0
    /\ ret.value.error # Null

\* the users that have a row without tombstone and are past the retention
\* period of user profiles
ExpiredUsers ==
    {u \in UserIds :
        /\ users[u] # Null
        /\ users[u][1].deleted_at = Null
        /\ now > users[u][1].created_at + UserProfileRetentionDays * 24 * 60 * 60}

\* C34: is_data_expired is true exactly when now is later than created_at
\* plus the retention period, so not at the expiry instant itself; and
\* find_expired_user_data, when its query returns, gives exactly the users
\* without tombstone that are expired under the retention period of user
\* profiles.
C34_Expiry ==
    [][/\ ret'.op = "is_data_expired" =>
             /\ ret'.value <=>
                   now' - ret'.created_at >
                      RetentionDays(ret'.retention_period) * 24 * 60 * 60
             /\ now' - ret'.created_at =
                   RetentionDays(ret'.retention_period) * 24 * 60 * 60 => ~ret'.value
       /\ (ret'.op = "find_expired_user_data" /\ ~ret'.find_raises) =>
             ret'.value = ExpiredUsers']_vars

\* C34 witness: at time 5, the expiry instant of user 2, the search returns
\* user 1 alone; neither user has a tombstone.
C34_Witness ==
    /\ ret.op = "find_expired_user_data" /\ ~ret.find_raises
    /\ now = 5
    /\ \A u \in UserIds : users[u] # Null /\ users[u][1].deleted_at = Null
    /\ users[2][1].created_at + UserProfileRetentionSeconds = now
    /\ ret.value = {1}

\* the positions of an invocation between its UPDATE to 'processing' and
\* its last DELETE
Destructive == {"delete_profiles", "delete_users"}

\* C35: of the invocations of process_deletion_request that interleave on
\* one pending request, one alone moves it from pending to processing (the
\* UPDATE to 'processing' is done on a request that is still pending), and
\* no two invocations are at the deletion for the same request.
C35_OneInvocationDeletes ==
    [][/\ \A w \in Workers :
             (pc[w] = "mark_processing" /\ pc'[w] = "delete_profiles")
             => deletion_requests[local[w].request_id].status = "pending"
       /\ \A w \in Workers : \A v \in Workers \ {w} :
             ~(/\ pc'[w] \in Destructive /\ pc'[v] \in Destructive
               /\ local'[w].request_id = local'[v].request_id)]_vars

\* C36: handling a request that the rate limiter denies records nothing:
\* the client's two histories are what they were without the entries that
\* have left the hour and the burst horizon, no timestamp is added to what
\* was recorded for the client, and the histories of the other clients are
\* untouched.
C36_DeniedNotRecorded ==
    [][(ret'.op = "dispatch" /\ ret'.value) =>
          \E c \in {ret'.client} :
              /\ recorded' = recorded
              /\ request_history'[c] = Newer(request_history[c], now - HourSeconds)
              /\ burst_history'[c] = Newer(burst_history[c], now - BurstSeconds)
              /\ \A d \in Clients \ {c} :
                    /\ request_history'[d] = request_history[d]
                    /\ burst_history'[d] = burst_history[d]]_vars

\* C36 witness: at time 3600 a request of a client recorded at 0, 60 and 60
\* has been denied; the histories hold the two entries of time 60 and no
\* entry for the denied request.
C36_Witness ==
    \E c \in Clients :
        /\ ret.op = "dispatch" /\ ret.client = c /\ ret.value
        /\ now = 3600
        /\ recorded[c] = <<0, 60, 60>>
        /\ request_history[c] = <<60, 60>>
        /\ burst_history[c] = <<>>

\* C37: a denial does not last: when the clock, which only advances, shows
\* that every request recorded for a client lies 3600 seconds or more back,
\* the check for that client allows, whatever number of requests of the
\* client were denied in between.
C37_DenialIsTransient ==
    [][\A c \in Clients :
          (/\ ret'.op \in {"check", "dispatch"}
           /\ ret'.client = c
           /\ \A i \in DOMAIN recorded[c] : now - recorded[c][i] >= HourSeconds)
          => ret'.value = FALSE]_vars

\* C37 witness: a client whose requests of time 0 filled every window is
\* admitted again at time 3600, and that request is the third one recorded.
C37_Witness ==
    \E c \in Clients :
        /\ ret.op = "dispatch" /\ ret.client = c /\ ret.value = FALSE
        /\ now = 3600
        /\ recorded[c] = <<0, 0, 3600>>
        /\ request_history[c] = <<3600>>

\* C38: incident creation persists before it notifies: after a create_incident
\* that emitted a notification the incident is stored with status DETECTED;
\* a create_incident whose INSERT failed reports the error, emits no
\* notification and leaves no audit entry (every audit entry names a stored
\* incident, and there are no more entries than stored incidents)
C38_PersistBeforeNotify ==
    /\ \A k \in DOMAIN audit_logs :
          /\ "incident_id" \in DOMAIN audit_logs[k].details
          /\ audit_logs[k].details.incident_id \in DOMAIN incidents
    /\ Len(audit_logs) <= Len(incidents)
    /\ ret.op = "create_incident" =>
          /\ ret.notifications # <<>> =>
                /\ ret.created
                /\ ret.value \in DOMAIN incidents
                /\ incidents[ret.value].status = "detected"
          /\ "insert" \in ret.fails =>
                /\ ~ret.created
                /\ ret.value = CreateIncidentValue(Len(incidents) + 1, {"insert"})
                /\ ret.notifications = <<>>

C38_Witness ==
    /\ ret.op = "create_incident" /\ "insert" \in ret.fails
    /\ ~ret.created
    /\ ret.notifications = <<>>
    /\ Len(incidents) = 1 /\ incidents[1].status = "detected"
    /\ Len(audit_logs) = 1

\* C39: the expired-data sweep converges: after a cleanup_expired_data that
\* found expired users and anonymized every one of them, find_expired_user_data
\* returns none of them, so that a second cleanup_expired_data at the same
\* instant processes zero users
C39_SweepConverges ==
    (/\ ret.op = "cleanup_expired_data"
     /\ ret.processed_users >= 1
     /\ ret.anonymized_users = ret.processed_users)
    => FindExpiredUserData(users) = {}

\* the action the table of _determine_action gives for a method and a
\* status code
ActionFollows(method, status_code, action) ==
    /\ action = "access_denied" <=> status_code >= 400
    /\ status_code < 400 =>
          /\ method = "GET" => action = "read"
          /\ method = "POST" => action = "create"
          /\ method \in {"PUT", "PATCH"} => action = "update"
          /\ method = "DELETE" => action = "delete"
          /\ method \notin {"GET", "POST", "PUT", "PATCH", "DELETE"} => action = "read"

====
